---- MODULE Spec2Model ----
(***************************************************************************)
(* Model of the Value / SymbolTable layer and of the Form layer of sophia.  *)
(*                                                                         *)
(* The validators of the Form layer (FunForm, TypeForm, SigForm,           *)
(* AttrsForm) are modelled further down, with a run of from_str and        *)
(* to_string held in `parser`, `source`, `res`, `printed` and `reparsed`.  *)
(*                                                                         *)
(* SymbolTable::from_values (src/src/symbol_table.rs) is a single loop     *)
(* over a Values sequence.  The model runs that loop one iteration per     *)
(* step: `values` is the prefix of the input consumed so far, `st` is the  *)
(* local table being built and `ret` is what the call has returned.        *)
(*                                                                         *)
(* Values::from_str (src/src/values.rs) is modelled last: `scan` holds the *)
(* locals of its loop over the tokens, one token per step.                 *)
(***************************************************************************)
EXTENDS Integers, Sequences, FiniteSets, TLC

VARIABLES values, st, ret, parser, source, res, printed, reparsed, scan

vars == <<values, st, ret, parser, source, res, printed, reparsed, scan>>

\* the state of a call of SymbolTable::from_values
table_vars == <<values, st, ret>>

\* the state of a run of a validator: from_str, to_string, from_str again
form_vars == <<parser, source, res, printed, reparsed>>

(***************************************************************************)
(* Bounds                                                                  *)
(***************************************************************************)
\* longest Values sequence handed to from_values
MaxValues == 2

(***************************************************************************)
(* Option<T>: None is the empty sequence, Some(x) the one-element sequence *)
(***************************************************************************)
None == <<>>

Some(x) == <<x>>

is_some(o) == o # <<>>

is_none(o) == o = <<>>

\* Option::unwrap on a Some; the callers model the panic on None themselves
unwrap(o) == o[1]

(***************************************************************************)
(* Type and Value                                                          *)
(*                                                                         *)
(* Value = { name, value (literal), typing, children, token }.  Of the     *)
(* token only file() is read by from_values, so the token is its file.     *)
(* An application carries the name of its head and has the head as its     *)
(* first child (test fun_value: "(+ 1 (sum (square 3) 4))" has name "+"    *)
(* and 3 children).                                                        *)
(***************************************************************************)
Type_Atom(tag) == [tag |-> tag, types |-> <<>>]

Type_Builtin == Type_Atom("Builtin")

Type_App(types) == [tag |-> "App", types |-> types]

\* an atomic Value: name, literal and primitive type by lexical kind
new_atom(name, lit, tag) ==
    [name |-> name, value |-> lit, typing |-> Type_Atom(tag),
     children |-> <<>>, file |-> None]

new_keyword(k) == new_atom(Some(k), None, "Builtin")

new_symbol(s) == new_atom(Some(s), None, "Unknown")

new_type_symbol(s) == new_atom(Some(s), None, "Type")

new_uint(n) == new_atom(None, Some(n), "UInt")

\* an application Value built from its children (head first)
new_app(children) ==
    [name |-> children[1].name, value |-> None,
     typing |-> Type_App([i \in 1..Len(children) |-> children[i].typing]),
     children |-> children, file |-> None]

\* every token of a value read from file f carries f
RECURSIVE in_file(_, _)
in_file(v, f) ==
    [v EXCEPT !.file = f,
              !.children = [i \in 1..Len(v.children) |-> in_file(v.children[i], f)]]

\* value.children[i] with the source's 0-based index
child(v, i) == v.children[i + 1]

(***************************************************************************)
(* Keyword                                                                 *)
(***************************************************************************)
Keywords ==
    {"import", "export", "deftype", "defsig", "defprim", "defsum", "defprod",
     "defun", "defattrs", "def", "type", "sig", "prim", "sum", "prod", "fun",
     "app", "attrs"}

\* Keyword::from_str / Keyword::from_string succeed exactly on a keyword
Keyword_is_keyword(s) == s \in Keywords

(***************************************************************************)
(* STElement and SymbolTable                                               *)
(***************************************************************************)
STElement_from_value(value) ==
    [name |-> value.name, value |-> value, file |-> value.file]

EmptyMap == [k \in {} |-> <<>>]

SymbolTable_new ==
    [files |-> {}, imp_paths |-> {}, exp_defs |-> {}, def_types |-> {},
     def_prims |-> {}, def_sums |-> {}, def_prods |-> {}, def_sigs |-> {},
     def_funs |-> {}, def_apps |-> {}, def_attrs |-> {},
     imports |-> EmptyMap, exports |-> EmptyMap, types |-> EmptyMap,
     prims |-> EmptyMap, sums |-> EmptyMap, prods |-> EmptyMap,
     sigs |-> EmptyMap, funs |-> EmptyMap, apps |-> EmptyMap,
     attrs |-> EmptyMap,
     main_type |-> None, main_sig |-> None, main_fun |-> None,
     main_app |-> None, main_attrs |-> None]

\* map.entry(k).and_modify(|v| v.push(el)).or_insert_with(|| vec![el])
entry_push(map, k, el) ==
    IF k \in DOMAIN map
    THEN [map EXCEPT ![k] = Append(@, el)]
    ELSE [x \in DOMAIN map \cup {k} |-> IF x = k THEN <<el>> ELSE map[x]]

\* register that inserts the name and pushes nothing
register_set_only(t, set, map, arg, el) ==
    [t EXCEPT ![set] = @ \cup {arg}]

\* set.insert(arg); map.entry(arg)...
register(t, set, map, arg, el) ==
    [t EXCEPT ![set] = @ \cup {arg}, ![map] = entry_push(@, arg, el)]

(***************************************************************************)
(* Outcome of one loop iteration: the local table afterwards and whether   *)
(* the loop goes on (Ok), returns Err, or the thread panics                *)
(***************************************************************************)
Ok(t) == [tag |-> "Ok", st |-> t, kind |-> "", desc |-> ""]

Err(t, kind, desc) == [tag |-> "Err", st |-> t, kind |-> kind, desc |-> desc]

Panic(t) == [tag |-> "Panic", st |-> t, kind |-> "", desc |-> ""]

\* value.children[1].name.clone().unwrap() does not panic
has_arg(value) == Len(value.children) > 1 /\ is_some(child(value, 1).name)

\* the error Keyword::from_str / Keyword::from_string return on a non-keyword
Keyword_from_error(t) == Err(t, "Semantic", "invalid keyword")

(***************************************************************************)
(* The arms of `match keyword` in SymbolTable::from_values                 *)
(***************************************************************************)
\* fill_main that leaves the slot empty
fill_main_never(t, arg, entry, slot, st_el, desc) ==
    IF arg = entry /\ is_some(t[slot])
    THEN Err(t, "Semantic", desc)
    ELSE Ok(t)

\* fill_main that keeps the first entry point and accepts the later ones
fill_main_keep_first(t, arg, entry, slot, st_el, desc) ==
    IF arg = entry
    THEN IF is_some(t[slot])
         THEN Ok(t)
         ELSE Ok([t EXCEPT ![slot] = Some(st_el)])
    ELSE Ok(t)

\* the tail shared by the arms that own a main slot:
\*   if arg == <entry> { if st.<slot>.is_some() { return Err(..) } st.<slot> = Some(st_el) }
fill_main(t, arg, entry, slot, st_el, desc) ==
    IF arg = entry
    THEN IF is_some(t[slot])
         THEN Err(t, "Semantic", desc)
         ELSE Ok([t EXCEPT ![slot] = Some(st_el)])
    ELSE Ok(t)

\* Keyword_Import that keys the entry by the name of the application
Keyword_Import_value_name(t, value) ==
    IF ~has_arg(value) THEN Panic(t)
    ELSE LET arg == unwrap(value.name)
             st_el == STElement_from_value(value)
         IN Ok(register(t, "imp_paths", "imports", arg, st_el))

Keyword_Import(t, value) ==
    IF ~has_arg(value) THEN Panic(t)
    ELSE LET arg == unwrap(child(value, 1).name)
             st_el == STElement_from_value(value)
         IN Ok(register(t, "imp_paths", "imports", arg, st_el))

\* for idx in 1..len { ... } over the children of the export target
RECURSIVE export_loop(_, _, _)
export_loop(t, target, idx) ==
    IF idx >= Len(target.children) THEN Ok(t)
    ELSE LET c == child(target, idx)
         IN IF is_none(c.name) THEN Panic(t)
            ELSE export_loop(register(t, "exp_defs", "exports", unwrap(c.name),
                                      STElement_from_value(target)),
                             target, idx + 1)

\* Keyword_Export whose loop starts at the head of the target
Keyword_Export_from_head(t, value) ==
    IF Len(value.children) < 2 THEN Panic(t)
    ELSE LET target == child(value, 1)
         IN IF Len(target.children) > 1
            THEN export_loop(t, target, 0)
            ELSE IF is_none(target.name) THEN Panic(t)
                 ELSE Ok(register(t, "exp_defs", "exports", unwrap(target.name),
                                  STElement_from_value(target)))

Keyword_Export(t, value) ==
    IF Len(value.children) < 2 THEN Panic(t)
    ELSE LET target == child(value, 1)
         IN IF Len(target.children) > 1
            THEN export_loop(t, target, 1)
            ELSE IF is_none(target.name) THEN Panic(t)
                 ELSE Ok(register(t, "exp_defs", "exports", unwrap(target.name),
                                  STElement_from_value(target)))

Keyword_Deftype(t, value) ==
    IF ~has_arg(value) THEN Panic(t)
    ELSE LET arg == unwrap(child(value, 1).name)
             st_el == STElement_from_value(value)
         IN fill_main(register(t, "def_types", "types", arg, st_el),
                      arg, "Main", "main_type", st_el, "duplicate Main type")

\* Keyword_Defsig that never looks at the main slot
Keyword_Defsig_no_main(t, value) ==
    IF ~has_arg(value) THEN Panic(t)
    ELSE LET arg == unwrap(child(value, 1).name)
             st_el == STElement_from_value(value)
         IN Ok(register(t, "def_sigs", "sigs", arg, st_el))

Keyword_Defsig(t, value) ==
    IF ~has_arg(value) THEN Panic(t)
    ELSE LET arg == unwrap(child(value, 1).name)
             st_el == STElement_from_value(value)
         IN fill_main(register(t, "def_sigs", "sigs", arg, st_el),
                      arg, "main", "main_sig", st_el, "duplicate main signature")

Keyword_Defprim(t, value) ==
    IF ~has_arg(value) THEN Panic(t)
    ELSE LET arg == unwrap(child(value, 1).name)
             st_el == STElement_from_value(value)
         IN Ok(register(t, "def_prims", "prims", arg, st_el))

Keyword_Defsum(t, value) ==
    IF ~has_arg(value) THEN Panic(t)
    ELSE LET arg == unwrap(child(value, 1).name)
             st_el == STElement_from_value(value)
         IN Ok(register(t, "def_sums", "sums", arg, st_el))

Keyword_Defprod(t, value) ==
    IF ~has_arg(value) THEN Panic(t)
    ELSE LET arg == unwrap(child(value, 1).name)
             st_el == STElement_from_value(value)
         IN Ok(register(t, "def_prods", "prods", arg, st_el))

\* Keyword_Defun that overwrites a filled main_fun instead of failing
Keyword_Defun_overwrite(t, value) ==
    IF ~has_arg(value) THEN Panic(t)
    ELSE LET arg == unwrap(child(value, 1).name)
             st_el == STElement_from_value(value)
             t1 == register(t, "def_funs", "funs", arg, st_el)
         IN IF arg = "main" THEN Ok([t1 EXCEPT !.main_fun = Some(st_el)]) ELSE Ok(t1)

\* Keyword_Defun that tests main_sig where it should test main_fun
Keyword_Defun_sig_slot(t, value) ==
    IF ~has_arg(value) THEN Panic(t)
    ELSE LET arg == unwrap(child(value, 1).name)
             st_el == STElement_from_value(value)
             t1 == register(t, "def_funs", "funs", arg, st_el)
         IN IF arg = "main"
            THEN IF is_some(t1.main_sig)
                 THEN Err(t1, "Semantic", "duplicate main function")
                 ELSE Ok([t1 EXCEPT !.main_fun = Some(st_el)])
            ELSE Ok(t1)

Keyword_Defun(t, value) ==
    IF ~has_arg(value) THEN Panic(t)
    ELSE LET arg == unwrap(child(value, 1).name)
             st_el == STElement_from_value(value)
         IN fill_main(register(t, "def_funs", "funs", arg, st_el),
                      arg, "main", "main_fun", st_el, "duplicate main function")

\* Keyword_Defattrs that keys the entry by the name of the application
Keyword_Defattrs_value_name(t, value) ==
    IF ~has_arg(value) THEN Panic(t)
    ELSE LET arg == unwrap(value.name)
             st_el == STElement_from_value(value)
         IN fill_main(register(t, "def_attrs", "attrs", arg, st_el),
                      arg, "main", "main_attrs", st_el, "duplicate main attributes")

Keyword_Defattrs(t, value) ==
    IF ~has_arg(value) THEN Panic(t)
    ELSE LET arg == unwrap(child(value, 1).name)
             st_el == STElement_from_value(value)
         IN fill_main(register(t, "def_attrs", "attrs", arg, st_el),
                      arg, "main", "main_attrs", st_el, "duplicate main attributes")

\* `match keyword` on the tag of a 2-child spec of a generic def
Def_kind(t, value, arg, st_el, kind) ==
    CASE kind = "type" ->
            fill_main(register(t, "def_types", "types", arg, st_el),
                      arg, "Main", "main_type", st_el, "duplicate Main type")
      [] kind = "sig" ->
            fill_main(register(t, "def_sigs", "sigs", arg, st_el),
                      arg, "main", "main_sig", st_el, "duplicate main signature")
      [] kind = "prim" -> Ok(register(t, "def_prims", "prims", arg, st_el))
      [] kind = "sum" -> Ok(register(t, "def_sums", "sums", arg, st_el))
      [] kind = "prod" -> Ok(register(t, "def_prods", "prods", arg, st_el))
      [] kind = "fun" ->
            fill_main(register(t, "def_funs", "funs", arg, st_el),
                      arg, "main", "main_fun", st_el, "duplicate main function")
      [] kind = "app" ->
            fill_main(register(t, "def_apps", "apps", arg, st_el),
                      arg, "main", "main_app", st_el, "duplicate main application")
      [] kind = "attrs" ->
            fill_main(register(t, "def_attrs", "attrs", arg, st_el),
                      arg, "main", "main_attrs", st_el, "duplicate main attributes")
      [] OTHER -> Err(t, "Semantic", "unexpected keyword")

\* the `else if len == 1` branch: `let arg = value.name.clone().unwrap();`
\* shadows the name taken from children[1] with the name of the def
\* application itself
Def_single(t, value, st_el) ==
    Ok(register(t, "def_prims", "prims", unwrap(value.name), st_el))

Keyword_Def(t, value) ==
    IF Len(value.children) # 3 THEN Err(t, "Semantic", "invalid definition")
    ELSE IF is_none(child(value, 1).name) THEN Panic(t)
    ELSE LET arg == unwrap(child(value, 1).name)
             arg_value == child(value, 2)
             st_el == STElement_from_value(value)
             len == Len(arg_value.children)
         IN IF len = 2
            THEN IF is_none(child(arg_value, 0).name)
                 THEN Err(t, "Semantic", "expected a keyword")
                 ELSE LET kind == unwrap(child(arg_value, 0).name)
                      IN IF ~Keyword_is_keyword(kind)
                         THEN Keyword_from_error(t)
                         ELSE Def_kind(t, value, arg, st_el, kind)
            ELSE IF len = 1
                 THEN Def_single(t, value, st_el)
                 ELSE Err(t, "Semantic", "invalid definition")

\* `_ => {}`
Keyword_other(t, value) == Ok(t)

\* is_builtin_app without the test of types[0]
is_builtin_app_any(value) == value.typing.tag = "App"

\* if let Some(Type::App(types)) = value.typing { if types[0] == Type::Builtin {
is_builtin_app(value) ==
    /\ value.typing.tag = "App"
    /\ value.typing.types[1] = Type_Builtin

\* if let Some(file) = value.token.file() { st.files.insert(file); }
track_file(t, value) ==
    IF is_some(value.file) THEN [t EXCEPT !.files = @ \cup {unwrap(value.file)}]
    ELSE t

\* the body of `for value in values` for one value
loop_body(t, value) ==
    LET t1 == track_file(t, value)
    IN IF ~is_builtin_app(value) THEN Ok(t1)
       ELSE IF is_none(value.name) THEN Panic(t1)
       ELSE LET keyword == unwrap(value.name)
            IN IF ~Keyword_is_keyword(keyword) THEN Keyword_from_error(t1)
               ELSE CASE keyword = "import" -> Keyword_Import(t1, value)
                      [] keyword = "export" -> Keyword_Export(t1, value)
                      [] keyword = "deftype" -> Keyword_Deftype(t1, value)
                      [] keyword = "defsig" -> Keyword_Defsig(t1, value)
                      [] keyword = "defprim" -> Keyword_Defprim(t1, value)
                      [] keyword = "defsum" -> Keyword_Defsum(t1, value)
                      [] keyword = "defprod" -> Keyword_Defprod(t1, value)
                      [] keyword = "defun" -> Keyword_Defun(t1, value)
                      [] keyword = "defattrs" -> Keyword_Defattrs(t1, value)
                      [] keyword = "def" -> Keyword_Def(t1, value)
                      [] OTHER -> Keyword_other(t1, value)

\* what SymbolTable::from_values returns
Returned(tag, table, kind, desc) ==
    [tag |-> tag, table |-> table, kind |-> kind, desc |-> desc]

Running == Returned("Running", None, "", "")

\* SymbolTable::from_values as a function of the whole sequence
RECURSIVE from_values_loop(_, _, _)
from_values_loop(t, vs, i) ==
    IF i > Len(vs) THEN Returned("Ok", Some(t), "", "")
    ELSE LET r == loop_body(t, vs[i])
         IN IF r.tag = "Ok" THEN from_values_loop(r.st, vs, i + 1)
            ELSE Returned(r.tag, None, r.kind, r.desc)

from_values(vs) == from_values_loop(SymbolTable_new, vs, 1)

(***************************************************************************)
(* The inputs: top-level values as Values::from_str builds them            *)
(***************************************************************************)
Names == {"main", "Main", "x"}

ShorthandKeywords ==
    {"deftype", "defsig", "defprim", "defsum", "defprod", "defun", "defattrs"}

Tags == {"type", "sig", "prim", "sum", "prod", "fun", "app", "attrs"}

\* a symbol token: upper-case-led names are type symbols
sym(n) == IF n = "Main" THEN new_type_symbol(n) ELSE new_symbol(n)

\* (defK n body)
shorthand(k, n, body) == new_app(<<new_keyword(k), sym(n), body>>)

\* (def n (K body))
generic(n, K, body) ==
    new_app(<<new_keyword("def"), sym(n), new_app(<<new_keyword(K), body>>)>>)

\* (prod a b ...)
prod_of(names) ==
    new_app(<<new_keyword("prod")>> \o [i \in 1..Len(names) |-> new_symbol(names[i])])

\* (defK n b): each category with an ordinary name, the main-slot owners
\* with their entry point, and an entry-point name in the wrong category
Shorthands ==
    {shorthand(k, "x", new_symbol("b")) : k \in ShorthandKeywords}
        \cup {shorthand("deftype", "Main", new_symbol("b")),
              shorthand("deftype", "main", new_symbol("b")),
              shorthand("defsig", "main", new_symbol("b")),
              shorthand("defun", "main", new_symbol("b")),
              shorthand("defattrs", "main", new_symbol("b"))}

\* (def n (K b))
Generics ==
    {generic("x", K, new_symbol("b")) : K \in {"prim", "sum", "prod", "fun", "app"}}
        \cup {generic("Main", "type", new_symbol("b")),
              generic("main", "sig", new_symbol("b")),
              generic("main", "fun", new_symbol("b")),
              generic("main", "app", new_symbol("b")),
              generic("main", "attrs", new_symbol("b"))}

\* "(defattrs sum (prod attr1 attr2 attr3))" of test symbol_table_attrs
DefattrsSum ==
    new_app(<<new_keyword("defattrs"), new_keyword("sum"),
              prod_of(<<"attr1", "attr2", "attr3">>)>>)

\* "(def sum (attrs (prod attr1 attr2 attr3)))" of test symbol_table_attrs
DefSumAttrs ==
    new_app(<<new_keyword("def"), new_keyword("sum"),
              new_app(<<new_keyword("attrs"), prod_of(<<"attr1", "attr2", "attr3">>)>>)>>)

Imports ==
    {new_app(<<new_keyword("import"), new_symbol("std.io")>>),
     new_app(<<new_keyword("import"), new_symbol("x")>>)}

export_of(target) == new_app(<<new_keyword("export"), target>>)

Exports ==
    {export_of(new_symbol(">>")),
     export_of(prod_of(<<"a", "b", "c">>)),
     export_of(prod_of(<<"a", "a">>)),
     export_of(prod_of(<<"a">>)),
     export_of(new_app(<<new_symbol("f"), new_symbol("a"), new_symbol("b")>>)),
     export_of(new_app(<<new_symbol("f")>>)),
     export_of(new_uint("42"))}

\* generic defs that are not of the shape (def n (K body))
OddDefs ==
    {new_app(<<new_keyword("def")>>),
     new_app(<<new_keyword("def"), new_symbol("x"), new_symbol("b"), new_symbol("c")>>),
     new_app(<<new_keyword("def"), new_symbol("x"), new_uint("42")>>),
     new_app(<<new_keyword("def"), new_symbol("x"), new_app(<<new_keyword("prim")>>)>>),
     new_app(<<new_keyword("def"), new_symbol("x"),
               new_app(<<new_symbol("a"), new_symbol("b"), new_symbol("c")>>)>>),
     new_app(<<new_keyword("def"), new_symbol("x"),
               new_app(<<new_uint("42"), new_symbol("b")>>)>>),
     new_app(<<new_keyword("def"), new_symbol("x"),
               new_app(<<new_symbol("f"), new_symbol("b")>>)>>),
     new_app(<<new_keyword("def"), new_symbol("x"),
               new_app(<<new_keyword("import"), new_symbol("b")>>)>>),
     new_app(<<new_keyword("def"), new_uint("42"),
               new_app(<<new_symbol("a"), new_symbol("b"), new_symbol("c")>>)>>),
     new_app(<<new_keyword("def"), new_uint("42"), new_app(<<new_keyword("prim")>>)>>)}

\* keyword applications without a named argument
Armless ==
    {new_app(<<new_keyword("import")>>),
     new_app(<<new_keyword("export")>>),
     new_app(<<new_keyword("defun")>>),
     new_app(<<new_keyword("deftype"), new_uint("42"), new_type_symbol("X")>>)}

\* values that are not an application of a handled keyword
Inert ==
    {new_symbol("x"), new_uint("42"), new_keyword("defsig"),
     new_app(<<new_symbol("main"), new_symbol("x")>>),
     new_app(<<new_keyword("type"), new_type_symbol("Main"), new_type_symbol("T")>>)}

SourceFile == "a.sp"

\* values that Values::from_file reads from SourceFile
FromFile ==
    {in_file(v, Some(SourceFile)) :
        v \in {shorthand("defprim", "x", new_symbol("b")),
               shorthand("deftype", "x", new_symbol("b")),
               new_symbol("x"),
               new_app(<<new_keyword("type"), new_type_symbol("Main"),
                         new_type_symbol("T")>>)}}

TopValues ==
    Shorthands \cup Generics \cup {DefattrsSum, DefSumAttrs} \cup Imports
        \cup Exports \cup OddDefs \cup Armless \cup Inert \cup FromFile

(***************************************************************************)
(* The state machine: one call of SymbolTable::from_values                 *)
(***************************************************************************)
\* the locals of Values::from_str before its loop (values.rs 41-43):
\* no value, an empty buffer and a nesting counter of zero
scan_of(at, str, filtered) ==
    [src |-> str, tokens |-> filtered, values |-> <<>>, form |-> <<>>,
     form_count |-> 0, calls |-> <<>>, ret |-> at, desc |-> ""]

Init ==
    /\ values = <<>>
    /\ st = SymbolTable_new
    /\ ret = Running
    /\ parser = ""
    /\ source = <<>>
    /\ res = None
    /\ printed = None
    /\ reparsed = None
    /\ scan = scan_of("Idle", <<>>, <<>>)

\* Iterate that drops the error of a value and goes on to the next one
Iterate_skip_error(value) ==
    /\ LET r == loop_body(st, value)
       IN /\ values' = Append(values, value)
          /\ st' = r.st
          /\ ret' = IF r.tag \in {"Ok", "Err"} THEN Running
                    ELSE Returned(r.tag, None, r.kind, r.desc)
    /\ UNCHANGED <<form_vars, scan>>

\* one iteration of the loop on the next value of the sequence
Iterate(value) ==
    /\ LET r == loop_body(st, value)
       IN /\ values' = Append(values, value)
          /\ st' = r.st
          /\ ret' = IF r.tag = "Ok" THEN Running
                    ELSE Returned(r.tag, None, r.kind, r.desc)
    /\ UNCHANGED <<form_vars, scan>>

\* the loop has not returned and the sequence has a next value
HasNext ==
    /\ ret = Running
    /\ Len(values) < MaxValues

\* the keyword of a keyword application
keyword_of(value) == unwrap(value.name)

HandledKeywords ==
    {"import", "export", "deftype", "defsig", "defprim", "defsum", "defprod",
     "defun", "defattrs", "def"}

\* a value that is not an application of a keyword
NotBuiltinApp == HasNext /\ \E v \in TopValues : ~is_builtin_app(v) /\ Iterate(v)

Import == HasNext /\ \E v \in TopValues : is_builtin_app(v) /\ keyword_of(v) = "import" /\ Iterate(v)

Export == HasNext /\ \E v \in TopValues : is_builtin_app(v) /\ keyword_of(v) = "export" /\ Iterate(v)

Deftype == HasNext /\ \E v \in TopValues : is_builtin_app(v) /\ keyword_of(v) = "deftype" /\ Iterate(v)

Defsig == HasNext /\ \E v \in TopValues : is_builtin_app(v) /\ keyword_of(v) = "defsig" /\ Iterate(v)

Defprim == HasNext /\ \E v \in TopValues : is_builtin_app(v) /\ keyword_of(v) = "defprim" /\ Iterate(v)

Defsum == HasNext /\ \E v \in TopValues : is_builtin_app(v) /\ keyword_of(v) = "defsum" /\ Iterate(v)

Defprod == HasNext /\ \E v \in TopValues : is_builtin_app(v) /\ keyword_of(v) = "defprod" /\ Iterate(v)

Defun == HasNext /\ \E v \in TopValues : is_builtin_app(v) /\ keyword_of(v) = "defun" /\ Iterate(v)

Defattrs == HasNext /\ \E v \in TopValues : is_builtin_app(v) /\ keyword_of(v) = "defattrs" /\ Iterate(v)

Def == HasNext /\ \E v \in TopValues : is_builtin_app(v) /\ keyword_of(v) = "def" /\ Iterate(v)

OtherKeyword ==
    HasNext /\ \E v \in TopValues :
        is_builtin_app(v) /\ keyword_of(v) \notin HandledKeywords /\ Iterate(v)

\* the sequence is exhausted: Ok(st)
Return ==
    /\ ret = Running
    /\ ret' = Returned("Ok", Some(st), "", "")
    /\ UNCHANGED <<values, st>>
    /\ UNCHANGED <<form_vars, scan>>

Next ==
    \/ NotBuiltinApp
    \/ Import
    \/ Export
    \/ Deftype
    \/ Defsig
    \/ Defprim
    \/ Defsum
    \/ Defprod
    \/ Defun
    \/ Defattrs
    \/ Def
    \/ OtherKeyword
    \/ Return

Spec == Init /\ [][Next]_vars

TypeOK ==
    /\ Len(values) <= MaxValues
    /\ ret.tag \in {"Running", "Ok", "Err", "Panic"}
    /\ ret.tag = "Ok" => ret.table = Some(st)

(***************************************************************************)
(* Vocabulary of the properties: what a definition is, read off the        *)
(* syntax of a top-level value                                             *)
(***************************************************************************)
Categories == {"type", "sig", "prim", "sum", "prod", "fun", "app", "attrs"}

MainCategories == {"type", "sig", "fun", "app", "attrs"}

NameSet ==
    [type |-> "def_types", sig |-> "def_sigs", prim |-> "def_prims",
     sum |-> "def_sums", prod |-> "def_prods", fun |-> "def_funs",
     app |-> "def_apps", attrs |-> "def_attrs"]

MapOf ==
    [type |-> "types", sig |-> "sigs", prim |-> "prims", sum |-> "sums",
     prod |-> "prods", fun |-> "funs", app |-> "apps", attrs |-> "attrs"]

SlotOf ==
    [type |-> "main_type", sig |-> "main_sig", fun |-> "main_fun",
     app |-> "main_app", attrs |-> "main_attrs"]

EntryPoint ==
    [type |-> "Main", sig |-> "main", fun |-> "main", app |-> "main",
     attrs |-> "main"]

DuplicateDesc ==
    [type |-> "duplicate Main type", sig |-> "duplicate main signature",
     fun |-> "duplicate main function", app |-> "duplicate main application",
     attrs |-> "duplicate main attributes"]

\* the shorthand keyword of a category (applications have none)
ShorthandOf ==
    [type |-> "deftype", sig |-> "defsig", prim |-> "defprim", sum |-> "defsum",
     prod |-> "defprod", fun |-> "defun", attrs |-> "defattrs"]

\* v is an application whose head is a keyword token
IsKeywordApp(v) ==
    /\ v.typing.tag = "App"
    /\ v.typing.types[1].tag = "Builtin"

\* v is the shorthand (defK n ...) of category c
IsShorthand(v, c, n) ==
    /\ IsKeywordApp(v)
    /\ c \in DOMAIN ShorthandOf
    /\ v.name = Some(ShorthandOf[c])
    /\ Len(v.children) >= 2
    /\ v.children[2].name = Some(n)

\* v is the generic (def n (c body))
IsGeneric(v, c, n) ==
    /\ IsKeywordApp(v)
    /\ v.name = Some("def")
    /\ Len(v.children) = 3
    /\ v.children[2].name = Some(n)
    /\ Len(v.children[3].children) = 2
    /\ v.children[3].children[1].name = Some(c)

\* v is the generic (def n spec) whose spec has exactly one child
IsSingleDef(v, n) ==
    /\ IsKeywordApp(v)
    /\ v.name = Some("def")
    /\ Len(v.children) = 3
    /\ v.children[2].name = Some(n)
    /\ Len(v.children[3].children) = 1

IsDefinition(v, c, n) == IsShorthand(v, c, n) \/ IsGeneric(v, c, n)

IsMainDefinition(v, c) == IsDefinition(v, c, EntryPoint[c])

\* the value the loop has just processed
Last(vs) == vs[Len(vs)]

\* the step is a loop iteration
Iterated == values' # values

(***************************************************************************)
(* C1: a Values sequence with two definitions of the same entry-point      *)
(* category is accepted up to the first and fails at the second with the   *)
(* SemanticError "duplicate <category>": the first fills the slot, the     *)
(* second is the last value processed and the call returns that error.     *)
(***************************************************************************)
C1_DuplicateMain ==
    \A c \in MainCategories :
        LET idx == {i \in 1..Len(values) : IsMainDefinition(values[i], c)}
        IN /\ Cardinality(idx) <= 2
           /\ Cardinality(idx) = 1 =>
                 /\ is_some(st[SlotOf[c]])
                 /\ Len(values) \in idx => ret.tag \in {"Running", "Ok"}
           /\ Cardinality(idx) = 2 =>
                 /\ Len(values) \in idx
                 /\ ret = Returned("Err", None, "Semantic", DuplicateDesc[c])

C1_Witness ==
    /\ Len(values) = 2
    /\ IsShorthand(values[1], "fun", "main")
    /\ IsShorthand(values[2], "fun", "main")
    /\ ret = Returned("Err", None, "Semantic", "duplicate main function")

(***************************************************************************)
(* C2: from any table state, for every tag K other than app and every name *)
(* n, the generic (def n (K body)) and the shorthand (defK n body) have    *)
(* the same outcome (go on, or the same duplicate-main error) and the same *)
(* effect on the name sets, the key sets of the maps and the filling of    *)
(* the main slots.                                                         *)
(***************************************************************************)
MapNames ==
    {"imports", "exports", "types", "prims", "sums", "prods", "sigs", "funs",
     "apps", "attrs"}

SetNames ==
    {"files", "imp_paths", "exp_defs", "def_types", "def_prims", "def_sums",
     "def_prods", "def_sigs", "def_funs", "def_apps", "def_attrs"}

SlotNames == {"main_type", "main_sig", "main_fun", "main_app", "main_attrs"}

\* the name sets, the key sets and which main slots are filled
Effect(t) ==
    [f \in SetNames \cup MapNames \cup SlotNames |->
        IF f \in SetNames THEN t[f]
        ELSE IF f \in MapNames THEN DOMAIN t[f]
        ELSE {is_some(t[f])}]

C3_Step ==
    Iterated =>
        \A c \in MainCategories :
            LET v == Last(values')
            IN IF IsMainDefinition(v, c)
               THEN is_none(st[SlotOf[c]]) =>
                       /\ ret' = Running
                       /\ st'[SlotOf[c]] = Some(STElement_from_value(v))
                       /\ EntryPoint[c] \in st'[NameSet[c]]
               ELSE /\ st'[SlotOf[c]] = st[SlotOf[c]]
                    /\ ~(ret'.tag = "Err" /\ ret'.desc = DuplicateDesc[c])

\* C3: every step of the loop keeps the main slots independent
C3_IndependentSlots == [][C3_Step]_vars

C3_Witness ==
    /\ ret.tag = "Ok"
    /\ Len(values) = 2
    /\ IsShorthand(values[1], "sig", "main")
    /\ IsShorthand(values[2], "fun", "main")
    /\ is_some(st.main_sig)
    /\ is_some(st.main_fun)
    /\ "main" \in st.def_funs

(***************************************************************************)
(* C4: a top-level value that is not an application of a keyword, and an   *)
(* application of a keyword other than import, export, deftype, defsig,    *)
(* defprim, defsum, defprod, defun, defattrs, def, is accepted and leaves  *)
(* every name set, map and main slot unchanged; the files set gains the    *)
(* file of the value, if it has one, and nothing else.                     *)
(***************************************************************************)
IsInertValue(v) == ~IsKeywordApp(v) \/ unwrap(v.name) \notin HandledKeywords

\* the table without its files set
SansFiles(t) == [t EXCEPT !.files = {}]

C4_Step ==
    (Iterated /\ IsInertValue(Last(values'))) =>
        LET v == Last(values')
        IN /\ ret' = Running
           /\ SansFiles(st') = SansFiles(st)
           /\ st'.files = st.files \cup {v.file[i] : i \in 1..Len(v.file)}

\* C4: every step on an inert value changes nothing but the files set
C4_InertValues == [][C4_Step]_vars

C4_Witness ==
    /\ Len(values) = 2
    /\ ret.tag = "Ok"
    /\ IsShorthand(values[1], "prim", "x")
    /\ IsKeywordApp(values[2])
    /\ values[2].name = Some("type")
    /\ values[2].file = Some(SourceFile)
    /\ st.files = {SourceFile}
    /\ st.def_prims = {"x"}
    /\ st.def_types = {}

(***************************************************************************)
(* C5: for a generic (def name spec) whose spec has exactly 1 child, the   *)
(* step registers `name`, the second child of the def application, as a    *)
(* primitive definition: afterwards name is in def_prims and a key of      *)
(* prims.                                                                  *)
(***************************************************************************)
C5_Step ==
    Iterated =>
        LET v == Last(values')
        IN \A n \in Names :
              IsSingleDef(v, n) =>
                 /\ ret' = Running
                 /\ n \in st'.def_prims
                 /\ n \in DOMAIN st'.prims

\* C5: every step on a def with a 1-child spec registers its name as a primitive
C5_SingleChildSpec == [][C5_Step]_vars

(***************************************************************************)
(* C6: a malformed generic def always fails with a SemanticError: a child  *)
(* count other than 3 and a spec with neither 1 nor 2 children give        *)
(* "invalid definition", a 2-child spec whose first child has no name      *)
(* gives "expected a keyword", one whose first child is no keyword gives a *)
(* SemanticError, one whose tag is a keyword outside the eight tags gives  *)
(* "unexpected keyword".                                                   *)
(***************************************************************************)
IsDef(v) == IsKeywordApp(v) /\ v.name = Some("def")

SemanticError(desc) == Returned("Err", None, "Semantic", desc)

C6_Step ==
    (Iterated /\ IsDef(Last(values'))) =>
        LET v == Last(values')
            spec == v.children[3]
            len == Len(spec.children)
            tag == spec.children[1].name
        IN IF Len(v.children) # 3 THEN ret' = SemanticError("invalid definition")
           ELSE IF len \notin {1, 2} THEN ret' = SemanticError("invalid definition")
           ELSE IF len = 1 THEN TRUE
           ELSE IF is_none(tag) THEN ret' = SemanticError("expected a keyword")
           ELSE IF unwrap(tag) \notin Keywords
                THEN ret'.tag = "Err" /\ ret'.kind = "Semantic"
           ELSE IF unwrap(tag) \notin Tags
                THEN ret' = SemanticError("unexpected keyword")
           ELSE TRUE

\* C6: every step on a malformed def returns the stated SemanticError
C6_MalformedDef == [][C6_Step]_vars

(***************************************************************************)
(* C7: (export target) for a target made of symbols.                       *)
(***************************************************************************)
IsSymbol(v) == v.children = <<>> /\ is_some(v.name) /\ is_none(v.value)

\* (export target)
IsExport(v) ==
    /\ IsKeywordApp(v)
    /\ v.name = Some("export")
    /\ Len(v.children) = 2

\* the target is a symbol or an application of symbols
OfSymbols(target) ==
    IF target.children = <<>> THEN IsSymbol(target)
    ELSE \A i \in 1..Len(target.children) : IsSymbol(target.children[i])

\* the target is (prod s1 .. sn) with n >= 2
IsProdOfSymbols(target) ==
    /\ Len(target.children) >= 3
    /\ target.name = Some("prod")
    /\ OfSymbols(target)

\* the names of the arguments of an application, in order
ArgNames(target) ==
    [i \in 1..(Len(target.children) - 1) |-> unwrap(target.children[i + 1].name)]

Range(seq) == {seq[i] : i \in 1..Len(seq)}

Count(x, seq) == Cardinality({i \in 1..Len(seq) : seq[i] = x})

\* from table t to table t2, exp_defs and the keys of exports gain exactly
\* `names`, el is appended once per occurrence of a name, and nothing else
\* but the files set changes
ExportsGain(t, t2, names, el) ==
    /\ t2.exp_defs = t.exp_defs \cup Range(names)
    /\ DOMAIN t2.exports = DOMAIN t.exports \cup Range(names)
    /\ \A k \in DOMAIN t2.exports :
          t2.exports[k] =
              (IF k \in DOMAIN t.exports THEN t.exports[k] ELSE <<>>)
                  \o [j \in 1..Count(k, names) |-> el]
    /\ [t2 EXCEPT !.exp_defs = {}, !.exports = EmptyMap, !.files = {}]
           = [t EXCEPT !.exp_defs = {}, !.exports = EmptyMap, !.files = {}]

\* C7 as stated: a prod of two or more symbols registers exactly those
\* symbols, one STElement per symbol; every other target adds exactly one
\* name, the target symbol
C7_Stated_Step ==
    (Iterated /\ IsExport(Last(values')) /\ OfSymbols(Last(values').children[2])) =>
        LET target == Last(values').children[2]
        IN /\ ret' = Running
           /\ IF IsProdOfSymbols(target)
              THEN ExportsGain(st, st', ArgNames(target), STElement_from_value(target))
              ELSE \E n \in st'.exp_defs :
                      /\ IsSymbol(target) => n = unwrap(target.name)
                      /\ st'.exp_defs = st.exp_defs \cup {n}
                      /\ DOMAIN st'.exports = DOMAIN st.exports \cup {n}

\* C7 as stated, for every step on an export
C7_Stated == [][C7_Stated_Step]_vars

\* C7 amended: when the target is an application with at least one argument,
\* whatever its head (a prod of two or more symbols included), exp_defs and
\* the keys of exports gain exactly the argument symbols and the STElement
\* of the target is appended once per argument; when the target is a single
\* symbol, or an application of its head alone, exactly one name, the name
\* of the target, is added, with one STElement.
C7_Step ==
    (Iterated /\ IsExport(Last(values')) /\ OfSymbols(Last(values').children[2])) =>
        LET target == Last(values').children[2]
            names == IF Len(target.children) > 1 THEN ArgNames(target)
                     ELSE <<unwrap(target.name)>>
        IN /\ ret' = Running
           /\ ExportsGain(st, st', names, STElement_from_value(target))

\* C7 amended, for every step on an export
C7_Export == [][C7_Step]_vars

C7_Witness ==
    /\ Len(values) = 2
    /\ ret.tag = "Ok"
    /\ IsExport(values[1])
    /\ IsProdOfSymbols(values[1].children[2])
    /\ IsExport(values[2])
    /\ values[2].children[2].name = Some("f")
    /\ st.exp_defs = {"a", "b", "c"}
    /\ DOMAIN st.exports = {"a", "b", "c"}
    /\ Len(st.exports["a"]) = 2
    /\ Len(st.exports["c"]) = 1

(***************************************************************************)
(* C8: when from_values succeeds, imp_paths is exactly the set of the path *)
(* arguments of the import applications of the sequence, and so is the key *)
(* set of imports.                                                         *)
(***************************************************************************)
IsImport(v) == IsKeywordApp(v) /\ v.name = Some("import")

ImportPaths(vs) ==
    {unwrap(vs[i].children[2].name) : i \in {j \in 1..Len(vs) : IsImport(vs[j])}}

C8_Imports ==
    ret.tag = "Ok" =>
        /\ unwrap(ret.table).imp_paths = ImportPaths(values)
        /\ DOMAIN unwrap(ret.table).imports = ImportPaths(values)

C8_Witness ==
    /\ ret.tag = "Ok"
    /\ Len(values) = 2
    /\ IsImport(values[1])
    /\ IsImport(values[2])
    /\ unwrap(ret.table).imp_paths = {"std.io", "x"}
    /\ DOMAIN unwrap(ret.table).imports = {"std.io", "x"}

(***************************************************************************)
(* C9: repeated definitions of a name that is not an entry-point name      *)
(* never fail, and after a successful from_values, for every category, the *)
(* list stored under a name holds exactly one STElement per top-level      *)
(* definition of that name in that category, in source order, the name     *)
(* being in the name set exactly when it has a definition.  The            *)
(* definitions of n in a category are the shorthand (defK n ..), the       *)
(* generic (def n (K ..)) and, for primitives, the generic (def n spec)    *)
(* with a 1-child spec.                                                    *)
(***************************************************************************)
DefinedNames == Names \cup {"sum", "def"}

Defines(v, c, n) == IsDefinition(v, c, n) \/ (c = "prim" /\ IsSingleDef(v, n))

C9_RepeatedDefinitions ==
    /\ ret.tag = "Ok" =>
          \A c \in Categories : \A n \in DefinedNames :
              LET t == unwrap(ret.table)
                  Test(v) == Defines(v, c, n)
                  defs == SelectSeq(values, Test)
              IN IF defs = <<>>
                 THEN n \notin t[NameSet[c]] /\ n \notin DOMAIN t[MapOf[c]]
                 ELSE /\ n \in t[NameSet[c]]
                      /\ n \in DOMAIN t[MapOf[c]]
                      /\ t[MapOf[c]][n]
                            = [i \in 1..Len(defs) |-> STElement_from_value(defs[i])]
    /\ \A c \in Categories : \A n \in DefinedNames :
          (/\ Len(values) > 0
           /\ Defines(Last(values), c, n)
           /\ ~(c \in MainCategories /\ n = EntryPoint[c]))
              => ret.tag \in {"Running", "Ok"}

(***************************************************************************)
(* C10: the shorthand (defattrs sum (prod attr1 attr2 attr3)) and the      *)
(* generic (def sum (attrs (prod attr1 attr2 attr3))).                     *)
(***************************************************************************)
\* the other form of the pair
OtherForm(v) == IF v = DefattrsSum THEN DefSumAttrs ELSE DefattrsSum

\* a finished call on one of the two forms alone
AttrsFormDone ==
    /\ ret.tag = "Ok"
    /\ values \in {<<DefattrsSum>>, <<DefSumAttrs>>}

\* C10 as stated: the STElement lists recorded under "sum" by the two forms
\* are equal
C10_Stated ==
    AttrsFormDone =>
        LET other == from_values(<<OtherForm(values[1])>>)
        IN /\ other.tag = "Ok"
           /\ unwrap(ret.table).attrs["sum"] = unwrap(other.table).attrs["sum"]

\* C10 amended: the two forms register the same name: def_attrs is {"sum"}
\* and attrs has the single key "sum" with a list of one STElement in both,
\* with the same origin file, and the other sets, maps and slots are equal;
\* the two STElements are not equal: each is the snapshot of its own
\* defining application, named defattrs for the shorthand and def for the
\* generic form.
C10_AttrsForms ==
    AttrsFormDone =>
        LET other == from_values(<<OtherForm(values[1])>>)
            t1 == unwrap(ret.table)
            t2 == unwrap(other.table)
        IN /\ other.tag = "Ok"
           /\ t1.def_attrs = {"sum"}
           /\ t2.def_attrs = {"sum"}
           /\ DOMAIN t1.attrs = {"sum"}
           /\ DOMAIN t2.attrs = {"sum"}
           /\ Len(t1.attrs["sum"]) = 1
           /\ Len(t2.attrs["sum"]) = 1
           /\ t1.attrs["sum"][1].file = t2.attrs["sum"][1].file
           /\ [t1 EXCEPT !.attrs = EmptyMap] = [t2 EXCEPT !.attrs = EmptyMap]
           /\ t1.attrs["sum"][1] = STElement_from_value(values[1])
           /\ t2.attrs["sum"][1] = STElement_from_value(OtherForm(values[1]))
           /\ t1.attrs["sum"][1].name # t2.attrs["sum"][1].name
           /\ t1.attrs["sum"] # t2.attrs["sum"]

C10_Witness ==
    /\ ret.tag = "Ok"
    /\ values = <<DefattrsSum>>
    /\ st.attrs["sum"][1].name = Some("defattrs")
    /\ unwrap(from_values(<<DefSumAttrs>>).table).attrs["sum"][1].name = Some("def")

(***************************************************************************)
(* C11: source order matters only for duplicate-main detection.  For every *)
(* permutation of a Values sequence from_values succeeds iff it succeeds   *)
(* on the original, and on success the name sets, the key sets of the maps *)
(* and the contents of the main slots are those of the original.  A        *)
(* failing call stops at the offending value, so the original may go on    *)
(* after the values consumed: the permutations of the sequence extended by *)
(* one more value fail too.                                                *)
(***************************************************************************)
\* the permutations of the sequence vs
Reorderings(vs) ==
    {[i \in 1..Len(vs) |-> vs[p[i]]] :
        p \in {q \in [1..Len(vs) -> 1..Len(vs)] :
                  \A i, j \in 1..Len(vs) : q[i] = q[j] => i = j}}

\* the name sets, the key sets and the contents of the main slots
Registered(t) ==
    [f \in SetNames \cup MapNames \cup SlotNames |->
        IF f \in MapNames THEN DOMAIN t[f] ELSE t[f]]

C11_OrderIrrelevant ==
    /\ ret.tag = "Ok" =>
          \A p \in Reorderings(values) :
              LET r == from_values(p)
              IN /\ r.tag = "Ok"
                 /\ Registered(unwrap(r.table)) = Registered(unwrap(ret.table))
    /\ ret.tag \in {"Err", "Panic"} =>
          /\ \A p \in Reorderings(values) : from_values(p).tag # "Ok"
          /\ Len(values) < MaxValues =>
                \A w \in TopValues : \A p \in Reorderings(Append(values, w)) :
                    from_values(p).tag # "Ok"

C11_Witness ==
    /\ ret.tag = "Ok"
    /\ Len(values) = 2
    /\ IsShorthand(values[1], "fun", "main")
    /\ IsGeneric(values[2], "sig", "main")
    /\ from_values(<<values[2], values[1]>>).tag = "Ok"
    /\ unwrap(from_values(<<values[2], values[1]>>).table).funs = st.funs

(***************************************************************************)
(* C12: from_values is fail-fast.  When it fails, the error returned is    *)
(* the one raised by the earliest offending value in source order: every   *)
(* value before it was processed without error, it is the last value       *)
(* processed, and no table comes with the error.                           *)
(***************************************************************************)
\* the values before the i-th one
Before(vs, i) == SubSeq(vs, 1, i - 1)

C12_FailFast ==
    /\ \A i \in 1..Len(values) : from_values(Before(values, i)).tag = "Ok"
    /\ ret.tag = "Err" =>
          /\ ret.table = None
          /\ Len(values) >= 1
          /\ LET n == Len(values)
                 r == loop_body(unwrap(from_values(Before(values, n)).table),
                                values[n])
             IN /\ r.tag = "Err"
                /\ ret.kind = r.kind
                /\ ret.desc = r.desc

C12_Witness ==
    /\ ret.tag = "Err"
    /\ Len(values) = 2
    /\ IsDefinition(values[1], "fun", "x")
    /\ loop_body(SymbolTable_new, values[2]).tag = "Err"

(***************************************************************************)
(* C13: from_values returns a table or an error for every Values sequence  *)
(* and never aborts; a keyword application that lacks its argument, or     *)
(* whose name position holds no named symbol, yields an error.             *)
(***************************************************************************)
\* an application of a keyword of the table that has no argument
LacksArgument(v) ==
    /\ is_builtin_app(v)
    /\ keyword_of(v) \in HandledKeywords
    /\ Len(v.children) < 2

\* an application of a naming keyword whose name position holds a literal
UnnamedPosition(v) ==
    /\ is_builtin_app(v)
    /\ keyword_of(v) \in HandledKeywords \ {"export"}
    /\ Len(v.children) >= 2
    /\ keyword_of(v) = "def" => Len(v.children) = 3
    /\ is_none(child(v, 1).name)

C13_NeverAborts ==
    /\ ret.tag \in {"Running", "Ok", "Err"}
    /\ /\ Len(values) >= 1
       /\ ret.tag # "Running"
       /\ LacksArgument(Last(values)) \/ UnnamedPosition(Last(values))
       => ret.tag = "Err"

(***************************************************************************)
(* The Form layer.                                                         *)
(*                                                                         *)
(* A source string is the sequence of its lexemes, the single spaces       *)
(* between them included: "(fun x ())" is                                  *)
(* <<"(", "fun", " ", "x", " ", "()", ")">>.  from_str drops the spaces    *)
(* and builds a Form, a head with a tail of simple values and nested       *)
(* forms; a validator turns the Form into its node and to_string prints    *)
(* the node back into a source string.                                     *)
(***************************************************************************)
\* the lexemes of the sources, by the class the tokenizer gives them
ValueSymbols == {"x", "a", "b"}
QualifiedValueSymbols == {"m.x"}
TypeSymbols == {"T", "X"}
QualifiedTypeSymbols == {"m.X"}
TypeKeywords == {"Empty", "Atomic", "Char"}
Prims == {"10"}
EmptyLiteral == "()"
FormKeywords == {"fun", "type", "sig", "attrs", "prod", "let", "case"}

\* crate::syntax::is_qualified: the symbol has a path separator
is_qualified(symbol) == symbol \in QualifiedValueSymbols \cup QualifiedTypeSymbols

\* an element of a tail: FormTailElement::Simple, FormTailElement::Form
Simple(lexeme) == [kind |-> "Simple", head |-> lexeme, tail |-> <<>>]
Form(head, tail) == [kind |-> "Form", head |-> head, tail |-> tail]

\* the variant of SimpleValue of a lexeme (sig_form.rs, type_form.rs)
SimpleValue_of(lexeme) ==
    CASE lexeme = EmptyLiteral -> "Empty"
      [] lexeme \in Prims -> "Prim"
      [] lexeme \in TypeKeywords -> "TypeKeyword"
      [] lexeme \in ValueSymbols -> "ValueSymbol"
      [] lexeme \in QualifiedValueSymbols -> "ValuePathSymbol"
      [] lexeme \in TypeSymbols -> "TypeSymbol"
      [] lexeme \in QualifiedTypeSymbols -> "TypePathSymbol"
      [] OTHER -> "Keyword"

\* the variant of FormParam of an element (fun_form.rs): a symbol keeps
\* its variant when it is qualified
FormParam_of(param) ==
    IF param.kind = "Form" THEN "Form"
    ELSE CASE param.head = EmptyLiteral -> "Empty"
           [] param.head \in Prims -> "Prim"
           [] param.head \in TypeKeywords -> "TypeKeyword"
           [] param.head \in ValueSymbols \cup QualifiedValueSymbols -> "ValueSymbol"
           [] param.head \in TypeSymbols \cup QualifiedTypeSymbols -> "TypeSymbol"
           [] OTHER -> "Keyword"

\* the variant of FunAppFormParam of an element (attrs.rs)
FunAppFormParam_of(param) ==
    IF param.kind = "Form" THEN "FunApp"
    ELSE IF FormParam_of(param) \in {"ValueSymbol", "TypeSymbol"} THEN "Symbol"
    ELSE "Other"

\* results of the parsers
FormOk(node) == [tag |-> "Ok", node |-> node]
FormErr(kind, desc) == [tag |-> "Err", kind |-> kind, desc |-> desc]
SyntacticErr(desc) == FormErr("Syntactic", desc)
SemanticErr(desc) == FormErr("Semantic", desc)

\* Tokens::from_str: the lexemes of the string without the spaces
Tokens_from_str(str) == SelectSeq(str, LAMBDA lexeme : lexeme # " ")

\* the elements from tokens[i] up to the ")" that closes the form
RECURSIVE parse_tail(_, _)
parse_tail(tokens, i) ==
    IF i > Len(tokens) THEN [ok |-> FALSE, tail |-> <<>>, next |-> i]
    ELSE IF tokens[i] = ")" THEN [ok |-> TRUE, tail |-> <<>>, next |-> i + 1]
    ELSE IF tokens[i] = "("
    THEN IF i + 1 > Len(tokens) \/ tokens[i + 1] \in {"(", ")"}
         THEN [ok |-> FALSE, tail |-> <<>>, next |-> i]
         ELSE LET inner == parse_tail(tokens, i + 2)
                  rest == parse_tail(tokens, inner.next)
              IN IF inner.ok /\ rest.ok
                 THEN [ok |-> TRUE,
                       tail |-> <<Form(tokens[i + 1], inner.tail)>> \o rest.tail,
                       next |-> rest.next]
                 ELSE [ok |-> FALSE, tail |-> <<>>, next |-> i]
    ELSE LET rest == parse_tail(tokens, i + 1)
         IN [ok |-> rest.ok,
             tail |-> <<Simple(tokens[i])>> \o rest.tail,
             next |-> rest.next]

\* Form::from_tokens: one balanced form with a head
Form_from_tokens(tokens) ==
    IF Len(tokens) < 3 \/ tokens[1] # "(" \/ tokens[2] \in {"(", ")"}
    THEN FormErr("Parsing", "expected a form")
    ELSE LET r == parse_tail(tokens, 3)
         IN IF r.ok /\ r.next = Len(tokens) + 1
            THEN FormOk(Form(tokens[2], r.tail))
            ELSE FormErr("Parsing", "expected a form")

\* the strings joined by single spaces: Vec<String>::join(" ")
RECURSIVE join(_)
join(strs) ==
    IF Len(strs) = 0 THEN <<>>
    ELSE IF Len(strs) = 1 THEN strs[1]
    ELSE strs[1] \o <<" ">> \o join(Tail(strs))

\* to_string of a simple value and of a generic form:
\* "(" + head + " " + tail.join(" ") + ")"
RECURSIVE Form_to_string(_)
Form_to_string(form) ==
    IF form.kind = "Simple" THEN <<form.head>>
    ELSE <<"(", form.head, " ">>
         \o join([i \in 1..Len(form.tail) |-> Form_to_string(form.tail[i])])
         \o <<")">>

(***************************************************************************)
(* TypeForm (src/src/form/type_form.rs)                                    *)
(***************************************************************************)
\* TypesForm::from_form: a type applied to types, (Pair A B)
RECURSIVE TypesForm_accepts(_)
TypesForm_accepts(form) ==
    /\ form.kind = "Form"
    /\ SimpleValue_of(form.head) \in {"TypeKeyword", "TypeSymbol", "TypePathSymbol"}
    /\ Len(form.tail) >= 1
    /\ \A i \in 1..Len(form.tail) :
          IF form.tail[i].kind = "Form" THEN TypesForm_accepts(form.tail[i])
          ELSE SimpleValue_of(form.tail[i].head)
                  \in {"TypeKeyword", "TypeSymbol", "TypePathSymbol"}

TypesForm_from_form(form) ==
    IF TypesForm_accepts(form) THEN FormOk(form)
    ELSE SyntacticErr("expected a form of types")

\* match form.tail[0]
TypeForm_name(name) ==
    IF name.kind = "Simple"
    THEN IF SimpleValue_of(name.head) = "TypeSymbol" THEN FormOk(name)
         ELSE SyntacticErr("expected an unqualified type symbol")
    ELSE SyntacticErr("unexpected form")

\* TypeForm_value without the arm of the type keyword Atomic
TypeForm_value_no_atomic(value) ==
    IF value.kind = "Simple"
    THEN CASE SimpleValue_of(value.head) = "TypeKeyword" ->
                 FormOk([tag |-> CASE value.head = "Empty" -> "Empty"
                                   [] OTHER -> "Keyword",
                         value |-> value])
           [] SimpleValue_of(value.head) = "TypeSymbol" ->
                 FormOk([tag |-> "Symbol", value |-> value])
           [] SimpleValue_of(value.head) = "TypePathSymbol" ->
                 FormOk([tag |-> "PathSymbol", value |-> value])
           [] OTHER -> SyntacticErr("unexpected value")
    ELSE IF TypesForm_from_form(value).tag = "Ok"
         THEN FormOk([tag |-> "Form", value |-> TypesForm_from_form(value).node])
         ELSE SyntacticErr("expected a form of types")

\* match form.tail[1]
TypeForm_value(value) ==
    IF value.kind = "Simple"
    THEN CASE SimpleValue_of(value.head) = "TypeKeyword" ->
                 FormOk([tag |-> CASE value.head = "Empty" -> "Empty"
                                   [] value.head = "Atomic" -> "Atomic"
                                   [] OTHER -> "Keyword",
                         value |-> value])
           [] SimpleValue_of(value.head) = "TypeSymbol" ->
                 FormOk([tag |-> "Symbol", value |-> value])
           [] SimpleValue_of(value.head) = "TypePathSymbol" ->
                 FormOk([tag |-> "PathSymbol", value |-> value])
           [] OTHER -> SyntacticErr("unexpected value")
    ELSE IF TypesForm_from_form(value).tag = "Ok"
         THEN FormOk([tag |-> "Form", value |-> TypesForm_from_form(value).node])
         ELSE SyntacticErr("expected a form of types")

\* TypeForm::from_form that refuses only a tail shorter than 2
TypeForm_from_form_at_least(form) ==
    IF form.head # "type" THEN SyntacticErr("expected a type keyword")
    ELSE IF Len(form.tail) < 2 THEN SyntacticErr("expected a name and a type")
    ELSE LET name == TypeForm_name(form.tail[1])
             value == TypeForm_value(form.tail[2])
         IN IF name.tag = "Err" THEN name
            ELSE IF value.tag = "Err" THEN value
            ELSE FormOk([name |-> name.node, value |-> value.node])

TypeForm_from_form(form) ==
    IF form.head # "type" THEN SyntacticErr("expected a type keyword")
    ELSE IF Len(form.tail) # 2 THEN SyntacticErr("expected a name and a type")
    ELSE LET name == TypeForm_name(form.tail[1])
             value == TypeForm_value(form.tail[2])
         IN IF name.tag = "Err" THEN name
            ELSE IF value.tag = "Err" THEN value
            ELSE FormOk([name |-> name.node, value |-> value.node])

\* the predicates of TypeForm on its value
TypeForm_is_empty_type(type_form) == type_form.value.tag = "Empty"
TypeForm_is_atomic_type(type_form) == type_form.value.tag = "Atomic"
TypeForm_is_type_keyword(type_form) == type_form.value.tag = "Keyword"
TypeForm_is_type_symbol(type_form) == type_form.value.tag = "Symbol"
TypeForm_is_types_form(type_form) == type_form.value.tag = "Form"

TypeForm_from_tokens(tokens) ==
    LET form == Form_from_tokens(tokens)
    IN IF form.tag = "Err" THEN form ELSE TypeForm_from_form(form.node)

TypeForm_from_str(str) == TypeForm_from_tokens(Tokens_from_str(str))

\* format!("(type {} {})", self.name, self.value.to_string())
TypeForm_to_string(type_form) ==
    <<"(", "type", " ">> \o Form_to_string(type_form.name) \o <<" ">>
    \o Form_to_string(type_form.value.value) \o <<")">>

(***************************************************************************)
(* SigForm (src/src/value/forms/sig_form.rs)                               *)
(***************************************************************************)
\* Type::from_simple_value
Type_from_simple_value(value) ==
    IF SimpleValue_of(value.head) \in {"TypeKeyword", "TypeSymbol", "TypePathSymbol"}
    THEN FormOk(value)
    ELSE SyntacticErr("expected a type")

\* Type::from_form
Type_from_form(form) ==
    IF TypesForm_accepts(form) THEN FormOk(form)
    ELSE SyntacticErr("expected a type")

\* SigForm_name that takes a qualified value symbol too
SigForm_name_qualified(name) ==
    IF name.kind = "Simple"
    THEN IF SimpleValue_of(name.head) \in {"ValueSymbol", "ValuePathSymbol"}
         THEN FormOk(name)
         ELSE SyntacticErr("expected an unqualified value symbol")
    ELSE SyntacticErr("unexpected form")

\* match form.tail[0]
SigForm_name(name) ==
    IF name.kind = "Simple"
    THEN IF SimpleValue_of(name.head) = "ValueSymbol" THEN FormOk(name)
         ELSE SyntacticErr("expected an unqualified value symbol")
    ELSE SyntacticErr("unexpected form")

\* match form.tail[1]
SigForm_value(value) ==
    IF value.kind = "Simple" THEN Type_from_simple_value(value)
    ELSE Type_from_form(value)

SigForm_from_form(form) ==
    IF form.head # "sig" THEN SyntacticErr("expected a sig keyword")
    ELSE IF Len(form.tail) # 2 THEN SyntacticErr("expected a name and a type")
    ELSE LET name == SigForm_name(form.tail[1])
             value == SigForm_value(form.tail[2])
         IN IF name.tag = "Err" THEN name
            ELSE IF value.tag = "Err" THEN value
            ELSE FormOk([name |-> name.node, value |-> value.node])

SigForm_from_tokens(tokens) ==
    LET form == Form_from_tokens(tokens)
    IN IF form.tag = "Err" THEN form ELSE SigForm_from_form(form.node)

SigForm_from_str(str) == SigForm_from_tokens(Tokens_from_str(str))

\* format!("(sig {} {})", self.name, self.value)
SigForm_to_string(sig_form) ==
    <<"(", "sig", " ">> \o Form_to_string(sig_form.name) \o <<" ">>
    \o Form_to_string(sig_form.value) \o <<")">>

(***************************************************************************)
(* FunForm (src/src/form/fun_form.rs)                                      *)
(***************************************************************************)
\* ProdForm::from_form: the values of an application of prod
ProdForm_from_form(form) ==
    IF form.head = "prod" THEN FormOk([values |-> form.tail, form |-> form])
    ELSE SyntacticErr("expected a prod keyword")

\* LetForm::from_form
LetForm_from_form(form) ==
    IF form.head = "let" /\ Len(form.tail) >= 1 THEN FormOk([form |-> form])
    ELSE SyntacticErr("expected a let keyword")

\* CaseForm::from_form
CaseForm_from_form(form) ==
    IF form.head = "case" /\ Len(form.tail) >= 1 THEN FormOk([form |-> form])
    ELSE SyntacticErr("expected a case keyword")

\* AppForm::from_form: a name applied to parameters
AppForm_from_form(form) ==
    IF SimpleValue_of(form.head) \notin {"Empty", "Prim"} /\ Len(form.tail) >= 1
    THEN FormOk([form |-> form])
    ELSE SyntacticErr("expected a name")

\* the variant of ProdFormValue of a value of a ProdForm
ProdFormValue_of(value) ==
    IF FormParam_of(value) \in {"ValueSymbol", "TypeSymbol"}
    THEN FormParam_of(value)
    ELSE "Other"

FunFormParam(tag, symbol) == [tag |-> tag, symbol |-> symbol]

\* for value in prod.values.iter(), from the i-th value on
RECURSIVE prod_params(_, _, _)
\* prod_params that takes the symbols as they are
prod_params_unchecked(prod_values, i, params) ==
    IF i > Len(prod_values) THEN FormOk(params)
    ELSE IF ProdFormValue_of(prod_values[i]) = "Other"
    THEN SyntacticErr("expected a product of symbols")
    ELSE prod_params(prod_values, i + 1,
                     Append(params, FunFormParam(ProdFormValue_of(prod_values[i]),
                                                 prod_values[i].head)))

prod_params(prod_values, i, params) ==
    IF i > Len(prod_values) THEN FormOk(params)
    ELSE IF ProdFormValue_of(prod_values[i]) = "Other"
    THEN SyntacticErr("expected a product of symbols")
    ELSE IF is_qualified(prod_values[i].head)
    THEN SyntacticErr("expected an unqualified symbol")
    ELSE prod_params(prod_values, i + 1,
                     Append(params, FunFormParam(ProdFormValue_of(prod_values[i]),
                                                 prod_values[i].head)))

\* match form.params[0]
FunForm_params(param) ==
    CASE FormParam_of(param) = "Empty" -> FormOk(<<>>)
      [] FormParam_of(param) \in {"ValueSymbol", "TypeSymbol"} ->
            IF is_qualified(param.head)
            THEN SyntacticErr("expected an unqualified symbol")
            ELSE FormOk(<<FunFormParam(FormParam_of(param), param.head)>>)
      [] FormParam_of(param) = "Form" ->
            IF ProdForm_from_form(param).tag = "Ok"
            THEN prod_params(ProdForm_from_form(param).node.values, 1, <<>>)
            ELSE SyntacticErr("expected a product of symbols")
      [] OTHER -> SyntacticErr("unexpected function params")

FunFormBody(tag, node) == [tag |-> tag, node |-> node]

\* the cascade that tries ProdForm only after AppForm
body_form_app_first(form) ==
    IF TypeForm_from_form(form).tag = "Ok"
    THEN FormOk(FunFormBody("TypeForm", TypeForm_from_form(form).node))
    ELSE IF LetForm_from_form(form).tag = "Ok"
    THEN FormOk(FunFormBody("LetForm", LetForm_from_form(form).node))
    ELSE IF CaseForm_from_form(form).tag = "Ok"
    THEN FormOk(FunFormBody("CaseForm", CaseForm_from_form(form).node))
    ELSE IF AppForm_from_form(form).tag = "Ok"
    THEN FormOk(FunFormBody("AppForm", AppForm_from_form(form).node))
    ELSE IF ProdForm_from_form(form).tag = "Ok"
    THEN FormOk(FunFormBody("ProdForm", ProdForm_from_form(form).node))
    ELSE SyntacticErr("expected a type form, a let form or an application form")

\* the FormParam::Form arm of match form.params[1]
body_form(form) ==
    IF TypeForm_from_form(form).tag = "Ok"
    THEN FormOk(FunFormBody("TypeForm", TypeForm_from_form(form).node))
    ELSE IF ProdForm_from_form(form).tag = "Ok"
    THEN FormOk(FunFormBody("ProdForm", ProdForm_from_form(form).node))
    ELSE IF LetForm_from_form(form).tag = "Ok"
    THEN FormOk(FunFormBody("LetForm", LetForm_from_form(form).node))
    ELSE IF CaseForm_from_form(form).tag = "Ok"
    THEN FormOk(FunFormBody("CaseForm", CaseForm_from_form(form).node))
    ELSE IF AppForm_from_form(form).tag = "Ok"
    THEN FormOk(FunFormBody("AppForm", AppForm_from_form(form).node))
    ELSE SyntacticErr("expected a type form, a let form or an application form")

\* match form.params[1]
FunForm_body(param) ==
    CASE FormParam_of(param) \in {"Empty", "Prim", "TypeKeyword",
                                  "ValueSymbol", "TypeSymbol"} ->
            FormOk(FunFormBody(FormParam_of(param), [symbol |-> param.head]))
      [] FormParam_of(param) = "Form" -> body_form(param)
      [] OTHER -> SyntacticErr("unexpected function body")

FunForm_from_form(form) ==
    IF form.head # "fun" THEN SyntacticErr("expected a fun keyword")
    ELSE IF Len(form.tail) # 2
    THEN SyntacticErr("expected a symbol or form and a primitive, or a symbol or a form")
    ELSE LET params == FunForm_params(form.tail[1])
             body == FunForm_body(form.tail[2])
         IN IF params.tag = "Err" THEN params
            ELSE IF body.tag = "Err" THEN body
            ELSE FormOk([params |-> params.node, body |-> body.node])

FunForm_from_tokens(tokens) ==
    LET form == Form_from_tokens(tokens)
    IN IF form.tag = "Err" THEN form ELSE FunForm_from_form(form.node)

FunForm_from_str(str) == FunForm_from_tokens(Tokens_from_str(str))

\* FunFormParam::to_string
FunFormParam_to_string(param) ==
    IF param.tag = "Empty" THEN <<EmptyLiteral>> ELSE <<param.symbol>>

\* FunFormBody::to_string
FunFormBody_to_string(body) ==
    CASE body.tag = "Empty" -> <<EmptyLiteral>>
      [] body.tag \in {"Prim", "TypeKeyword", "ValueSymbol", "TypeSymbol"} ->
            <<body.node.symbol>>
      [] body.tag = "TypeForm" -> TypeForm_to_string(body.node)
      [] OTHER -> Form_to_string(body.node.form)

\* params_to_string with the test of the product arm off by one
params_to_string_off_by_one(params) ==
    CASE Len(params) = 1 -> FunFormParam_to_string(params[1])
      [] Len(params) > 2 ->
            <<"(", "prod", " ">>
            \o join([i \in 1..Len(params) |-> FunFormParam_to_string(params[i])])
            \o <<")">>
      [] OTHER -> <<EmptyLiteral>>

\* params_to_string that prints every non-empty list as a product
params_to_string_prod(params) ==
    CASE Len(params) >= 1 ->
            <<"(", "prod", " ">>
            \o join([i \in 1..Len(params) |-> FunFormParam_to_string(params[i])])
            \o <<")">>
      [] OTHER -> <<EmptyLiteral>>

\* FunForm::params_to_string
params_to_string(params) ==
    CASE Len(params) = 1 -> FunFormParam_to_string(params[1])
      [] Len(params) > 1 ->
            <<"(", "prod", " ">>
            \o join([i \in 1..Len(params) |-> FunFormParam_to_string(params[i])])
            \o <<")">>
      [] OTHER -> <<EmptyLiteral>>

\* format!("(fun {} {})", self.params_to_string(), self.body.to_string())
FunForm_to_string(fun) ==
    <<"(", "fun", " ">> \o params_to_string(fun.params) \o <<" ">>
    \o FunFormBody_to_string(fun.body) \o <<")">>

(***************************************************************************)
(* AttrsForm (src/src/value/form/attrs.rs)                                 *)
(***************************************************************************)
\* FunAppForm::from_tokens: the name and the params of an application
FunAppForm_from_tokens(tokens) ==
    LET form == Form_from_tokens(tokens)
    IN IF form.tag = "Err" THEN form
       ELSE FormOk([name |-> form.node.head, params |-> form.node.tail])

\* for param in form.params.iter(), from the i-th param on
RECURSIVE attrs_values(_, _, _)
attrs_values(form_params, i, attrs) ==
    IF i > Len(form_params) THEN FormOk(attrs)
    ELSE IF FunAppFormParam_of(form_params[i]) = "Symbol"
    THEN attrs_values(form_params, i + 1,
                      [attrs EXCEPT !.values = Append(@, form_params[i].head)])
    ELSE SemanticErr("expected a symbol")

AttrsForm_from_fun_app(fun_app) ==
    IF fun_app.name # "attrs" THEN SemanticErr("expected a attrs keyword")
    ELSE IF Len(fun_app.params) # 2
    THEN SemanticErr("expected a name and a product of symbols")
    ELSE IF FunAppFormParam_of(fun_app.params[1]) # "Symbol"
    THEN SemanticErr("expected a symbol")
    ELSE IF FunAppFormParam_of(fun_app.params[2]) = "FunApp"
    THEN IF fun_app.params[2].head # "prod"
         THEN SemanticErr("expected a product of symbols")
         ELSE attrs_values(fun_app.params[2].tail, 1,
                           [name |-> fun_app.params[1].head, values |-> <<>>])
    ELSE SemanticErr("expected a product of symbols")

AttrsForm_from_tokens(tokens) ==
    LET fun_app == FunAppForm_from_tokens(tokens)
    IN IF fun_app.tag = "Err" THEN fun_app
       ELSE AttrsForm_from_fun_app(fun_app.node)

AttrsForm_from_str(str) == AttrsForm_from_tokens(Tokens_from_str(str))

\* format!("(attrs {} (prod {}))", self.name, self.values.join(" "))
AttrsForm_to_string(attrs) ==
    <<"(", "attrs", " ", attrs.name, " ", "(", "prod", " ">>
    \o join([i \in 1..Len(attrs.values) |-> <<attrs.values[i]>>])
    \o <<")", ")">>

(***************************************************************************)
(* The sources handed to the validators                                    *)
(***************************************************************************)
\* longest product of a source
MaxProd == 2

\* the values of the products: symbols, a qualified symbol, a literal
ProdValues == {Simple("a"), Simple("T"), Simple("m.x"), Simple("10")}

Products ==
    {Form("prod", values_) :
        values_ \in UNION {[1..n -> ProdValues] : n \in 0..MaxProd}}

FunParams ==
    Products \cup
    {Simple(EmptyLiteral), Simple("x"), Simple("T"), Simple("m.x"),
     Simple("m.X"), Simple("10"), Simple("prod"),
     Form("a", <<Simple("b")>>)}

FunBodies ==
    {Simple(EmptyLiteral), Simple("10"), Simple("Char"), Simple("x"),
     Simple("m.x"), Simple("T"), Simple("let"),
     Form("type", <<Simple("T"), Simple("X")>>),
     Form("type", <<Simple("x"), Simple("X")>>),
     Form("prod", <<Simple("a"), Simple("b")>>),
     Form("let", <<Simple("a"), Simple("b")>>),
     Form("case", <<Simple("a"), Simple("b")>>),
     Form("m.x", <<Form("prod", <<Simple("a"), Simple("10")>>)>>),
     Form("10", <<Simple("a")>>)}

\* the names and the types of the type and sig sources
DeclNames ==
    {Simple("T"), Simple("m.X"), Simple("x"), Simple("m.x"), Simple("10"),
     Simple("Char"), Form("X", <<Simple("T")>>)}

DeclTypes ==
    {Simple("Empty"), Simple("Atomic"), Simple("Char"), Simple("X"),
     Simple("m.X"), Simple("x"), Simple("10"),
     Form("X", <<Simple("m.X"), Simple("Char"), Form("T", <<Simple("X")>>)>>),
     Form("a", <<Simple("b")>>)}

AttrsNames ==
    {Simple("x"), Simple("m.x"), Simple("T"), Simple("10"),
     Form("a", <<Simple("b")>>)}

AttrsProducts == Products \cup {Simple("a"), Form("a", <<Simple("b")>>)}

\* the forms with fewer and with more arguments than the arity
OddArity ==
    {Form(head, tail_) :
        head \in {"fun", "type", "sig", "attrs"},
        tail_ \in {<<>>, <<Simple("x")>>, <<Simple("T")>>,
                   <<Simple("x"), Simple("X"), Simple("x")>>,
                   <<Simple("T"), Simple("X"), Simple("x")>>}}

SourceForms ==
    {Form("fun", <<p, b>>) : p \in FunParams, b \in FunBodies}
    \cup {Form("type", <<n, t>>) : n \in DeclNames, t \in DeclTypes}
    \cup {Form("sig", <<n, t>>) : n \in DeclNames, t \in DeclTypes}
    \cup {Form("attrs", <<n, p>>) : n \in AttrsNames, p \in AttrsProducts}
    \cup OddArity

\* the source string of a form, as the literals of the tests write it
RECURSIVE literal(_), literal_tail(_, _)
literal(form) ==
    IF form.kind = "Simple" THEN <<form.head>>
    ELSE <<"(", form.head>> \o literal_tail(form.tail, 1) \o <<")">>

literal_tail(tail_, i) ==
    IF i > Len(tail_) THEN <<>>
    ELSE <<" ">> \o literal(tail_[i]) \o literal_tail(tail_, i + 1)

Sources == {literal(form) : form \in SourceForms}

(***************************************************************************)
(* A run of a validator, as the tests of the forms make it:                *)
(*   res = X::from_str(s); form = res.unwrap(); form.to_string()           *)
(* followed by from_str on the string printed.                             *)
(***************************************************************************)
\* res = X::from_str(s)
CallFromStr(name, str, result) ==
    /\ parser' = name
    /\ source' = str
    /\ res' = Some(result)
    /\ UNCHANGED <<printed, reparsed>>
    /\ UNCHANGED <<table_vars, scan>>

\* from_str of the validator has returned a node that is not printed yet
Parsed(name) ==
    /\ parser = name
    /\ is_some(res)
    /\ unwrap(res).tag = "Ok"
    /\ is_none(printed)

\* form.to_string()
CallToString(str) ==
    /\ printed' = Some(str)
    /\ UNCHANGED <<parser, source, res, reparsed>>
    /\ UNCHANGED <<table_vars, scan>>

\* the node is printed and the string is not parsed yet
Printed(name) ==
    /\ parser = name
    /\ is_some(printed)
    /\ is_none(reparsed)

\* X::from_str(form.to_string())
CallFromStrAgain(result) ==
    /\ reparsed' = Some(result)
    /\ UNCHANGED <<parser, source, res, printed>>
    /\ UNCHANGED <<table_vars, scan>>

FunFormFromStr ==
    /\ parser = ""
    /\ \E str \in Sources : CallFromStr("FunForm", str, FunForm_from_str(str))

FunFormToString ==
    /\ Parsed("FunForm")
    /\ CallToString(FunForm_to_string(unwrap(res).node))

FunFormFromStrAgain ==
    /\ Printed("FunForm")
    /\ CallFromStrAgain(FunForm_from_str(unwrap(printed)))

TypeFormFromStr ==
    /\ parser = ""
    /\ \E str \in Sources : CallFromStr("TypeForm", str, TypeForm_from_str(str))

TypeFormToString ==
    /\ Parsed("TypeForm")
    /\ CallToString(TypeForm_to_string(unwrap(res).node))

TypeFormFromStrAgain ==
    /\ Printed("TypeForm")
    /\ CallFromStrAgain(TypeForm_from_str(unwrap(printed)))

SigFormFromStr ==
    /\ parser = ""
    /\ \E str \in Sources : CallFromStr("SigForm", str, SigForm_from_str(str))

SigFormToString ==
    /\ Parsed("SigForm")
    /\ CallToString(SigForm_to_string(unwrap(res).node))

SigFormFromStrAgain ==
    /\ Printed("SigForm")
    /\ CallFromStrAgain(SigForm_from_str(unwrap(printed)))

AttrsFormFromStr ==
    /\ parser = ""
    /\ \E str \in Sources : CallFromStr("AttrsForm", str, AttrsForm_from_str(str))

AttrsFormToString ==
    /\ Parsed("AttrsForm")
    /\ CallToString(AttrsForm_to_string(unwrap(res).node))

AttrsFormFromStrAgain ==
    /\ Printed("AttrsForm")
    /\ CallFromStrAgain(AttrsForm_from_str(unwrap(printed)))

FormNext ==
    \/ FunFormFromStr
    \/ FunFormToString
    \/ FunFormFromStrAgain
    \/ TypeFormFromStr
    \/ TypeFormToString
    \/ TypeFormFromStrAgain
    \/ SigFormFromStr
    \/ SigFormToString
    \/ SigFormFromStrAgain
    \/ AttrsFormFromStr
    \/ AttrsFormToString
    \/ AttrsFormFromStrAgain

FormSpec == Init /\ [][FormNext]_vars

\* the node of a successful from_str
node == unwrap(res).node

\* from_str has returned Ok
Accepted(name) ==
    /\ parser = name
    /\ is_some(res)
    /\ unwrap(res).tag = "Ok"

\* the Form that from_str has built from the source
source_form == Form_from_tokens(Tokens_from_str(source)).node

FormTypeOK ==
    /\ parser \in {"", "FunForm", "TypeForm", "SigForm", "AttrsForm"}
    /\ is_some(res) => unwrap(res).tag \in {"Ok", "Err"}
    /\ is_some(res) => source_form \in SourceForms
    /\ is_some(printed) => Accepted(parser)

written_params(param) ==
    IF param.kind = "Form" /\ Len(param.tail) = 1 THEN param.tail[1]
    ELSE IF param.kind = "Form" /\ Len(param.tail) = 0 THEN Simple(EmptyLiteral)
    ELSE param

C15_Reparse ==
    parser = "FunForm" /\ is_some(reparsed) =>
        /\ unwrap(reparsed).tag = "Ok"
        /\ unwrap(reparsed).node.params = node.params
        /\ unwrap(reparsed).node.body = node.body

C15_Witness ==
    /\ parser = "FunForm"
    /\ is_some(reparsed)
    /\ Len(node.params) = 2
    /\ node.body.tag = "TypeForm"
    /\ unwrap(reparsed) = unwrap(res)

(***************************************************************************)
(* C16: when the body of a FunForm is a nested form, from_form tries       *)
(* TypeForm, ProdForm, LetForm, CaseForm, AppForm in that order and takes  *)
(* the first that succeeds: a form valid as a ProdForm and as an AppForm   *)
(* gives FunFormBody::ProdForm, and in general the variant is the earliest *)
(* alternative that accepts the form.                                      *)
(***************************************************************************)
Cascade == <<"TypeForm", "ProdForm", "LetForm", "CaseForm", "AppForm">>

\* from_form of the alternative succeeds on the form
AcceptedBy(alternative, form) ==
    CASE alternative = "TypeForm" -> TypeForm_from_form(form).tag = "Ok"
      [] alternative = "ProdForm" -> ProdForm_from_form(form).tag = "Ok"
      [] alternative = "LetForm" -> LetForm_from_form(form).tag = "Ok"
      [] alternative = "CaseForm" -> CaseForm_from_form(form).tag = "Ok"
      [] alternative = "AppForm" -> AppForm_from_form(form).tag = "Ok"

\* from_form has parsed the params of the source and reached a nested body
NestedBody ==
    /\ parser = "FunForm"
    /\ is_some(res)
    /\ source_form.head = "fun"
    /\ Len(source_form.tail) = 2
    /\ FunForm_params(source_form.tail[1]).tag = "Ok"
    /\ source_form.tail[2].kind = "Form"

C16_Cascade ==
    NestedBody =>
        LET body == source_form.tail[2]
            accepting == {i \in 1..Len(Cascade) : AcceptedBy(Cascade[i], body)}
        IN /\ accepting # {} =>
                 /\ unwrap(res).tag = "Ok"
                 /\ \E i \in accepting :
                       /\ \A j \in accepting : i <= j
                       /\ node.body.tag = Cascade[i]
           /\ accepting = {} => unwrap(res).tag = "Err"
           /\ AcceptedBy("ProdForm", body) /\ AcceptedBy("AppForm", body) =>
                 node.body.tag = "ProdForm"

C16_Witness ==
    /\ NestedBody
    /\ AcceptedBy("ProdForm", source_form.tail[2])
    /\ AcceptedBy("AppForm", source_form.tail[2])
    /\ node.body.tag = "ProdForm"

(***************************************************************************)
(* C17: FunForm::from_form never succeeds when a parameter is a qualified  *)
(* symbol.  A qualified value or type symbol as the single parameter, or   *)
(* as an element of a product of symbols, gives the SyntacticError         *)
(* "expected an unqualified symbol"; every parameter of a parsed FunForm   *)
(* is an unqualified symbol tagged ValueSymbol or TypeSymbol.              *)
(***************************************************************************)
\* the element is a value symbol or a type symbol, qualified or not
IsParamSymbol(param) ==
    /\ param.kind = "Simple"
    /\ FormParam_of(param) \in {"ValueSymbol", "TypeSymbol"}

\* the element is a qualified symbol
IsQualifiedSymbol(param) == IsParamSymbol(param) /\ is_qualified(param.head)

\* from_form has reached the params of the source
AtParams ==
    /\ parser = "FunForm"
    /\ is_some(res)
    /\ source_form.head = "fun"
    /\ Len(source_form.tail) = 2

AtName(name, keyword) ==
    /\ parser = name
    /\ is_some(res)
    /\ source_form.head = keyword
    /\ Len(source_form.tail) = 2

\* the element is an unqualified symbol of the set
IsUnqualified(param, symbols) ==
    /\ param.kind = "Simple"
    /\ param.head \in symbols

C18_Names ==
    /\ AtName("TypeForm", "type") /\ ~IsUnqualified(source_form.tail[1], TypeSymbols)
       => /\ unwrap(res).tag = "Err"
          /\ unwrap(res).kind = "Syntactic"
    /\ AtName("SigForm", "sig") /\ ~IsUnqualified(source_form.tail[1], ValueSymbols)
       => /\ unwrap(res).tag = "Err"
          /\ unwrap(res).kind = "Syntactic"
    /\ Accepted("TypeForm") => IsUnqualified(node.name, TypeSymbols)
    /\ Accepted("SigForm") => IsUnqualified(node.name, ValueSymbols)

C18_Witness ==
    /\ AtName("SigForm", "sig")
    /\ source_form.tail[1] = Simple("m.x")
    /\ source_form.tail[2] = Simple("Char")
    /\ unwrap(res) = SyntacticErr("expected an unqualified value symbol")

(***************************************************************************)
(* C19: AttrsForm never parses successfully when its name has a            *)
(* qualifying separator (SyntacticError) or when its second argument is    *)
(* not a prod application whose every element is an unqualified symbol     *)
(* (SemanticError).                                                        *)
(***************************************************************************)
\* the element is an application of prod to unqualified symbols
IsProdOfUnqualified(param) ==
    /\ param.kind = "Form"
    /\ param.head = "prod"
    /\ \A i \in 1..Len(param.tail) :
          IsParamSymbol(param.tail[i]) /\ ~is_qualified(param.tail[i].head)

C19_Qualification ==
    AtName("AttrsForm", "attrs") =>
        /\ IsQualifiedSymbol(source_form.tail[1]) =>
              /\ unwrap(res).tag = "Err"
              /\ unwrap(res).kind = "Syntactic"
        /\ /\ IsParamSymbol(source_form.tail[1])
           /\ ~is_qualified(source_form.tail[1].head)
           /\ ~IsProdOfUnqualified(source_form.tail[2])
           => /\ unwrap(res).tag = "Err"
              /\ unwrap(res).kind = "Semantic"

(***************************************************************************)
(* C20: every AttrsForm of a successful parse has a values list that is    *)
(* not empty and holds the elements of the prod argument in source order.  *)
(***************************************************************************)
C20_Values ==
    Accepted("AttrsForm") =>
        /\ Len(node.values) >= 1
        /\ node.values = [i \in 1..Len(source_form.tail[2].tail) |->
                             source_form.tail[2].tail[i].head]

(***************************************************************************)
(* C21: each of FunForm, TypeForm, SigForm and AttrsForm rejects an input  *)
(* whose head is not its keyword (fun, type, sig, attrs) with the          *)
(* SyntacticError "expected a <keyword> keyword", whatever the rest of the *)
(* input is.                                                               *)
(***************************************************************************)
\* the keyword of each validator and the message of its head test
KeywordOf ==
    [FunForm |-> "fun", TypeForm |-> "type", SigForm |-> "sig", AttrsForm |-> "attrs"]

ExpectedKeyword ==
    [FunForm |-> "expected a fun keyword", TypeForm |-> "expected a type keyword",
     SigForm |-> "expected a sig keyword", AttrsForm |-> "expected a attrs keyword"]

\* from_str of the validator has built a Form with another head
OtherHead(name) ==
    /\ parser = name
    /\ is_some(res)
    /\ source_form.head # KeywordOf[name]

C21_HeadKeyword ==
    \A name \in DOMAIN KeywordOf :
        OtherHead(name) => unwrap(res) = SyntacticErr(ExpectedKeyword[name])

(***************************************************************************)
(* C22: a FunForm, TypeForm or SigForm input whose tail length is not 2    *)
(* fails with a SyntacticError; with the right head the message names the  *)
(* expected shape.  No node is produced from a tail of another length.     *)
(***************************************************************************)
ExpectedShape ==
    [FunForm |-> "expected a symbol or form and a primitive, or a symbol or a form",
     TypeForm |-> "expected a name and a type",
     SigForm |-> "expected a name and a type"]

C22_Arity ==
    \A name \in DOMAIN ExpectedShape :
        /\ parser = name /\ is_some(res) /\ Len(source_form.tail) # 2 =>
              /\ unwrap(res).tag = "Err"
              /\ unwrap(res).kind = "Syntactic"
              /\ source_form.head = KeywordOf[name] =>
                    unwrap(res).desc = ExpectedShape[name]
        /\ Accepted(name) => Len(source_form.tail) = 2

C22_Witness ==
    /\ parser = "TypeForm"
    /\ is_some(res)
    /\ source_form = Form("type", <<Simple("T"), Simple("X"), Simple("x")>>)
    /\ unwrap(res) = SyntacticErr("expected a name and a type")

(***************************************************************************)
(* C25: TypeForm::from_form classifies the second element of the tail:     *)
(* the type keyword Empty gives Empty, Atomic gives Atomic, another type   *)
(* keyword gives Keyword, an unqualified type symbol gives Symbol, a type  *)
(* path symbol gives PathSymbol, a nested form that TypesForm accepts      *)
(* gives Form; another simple value fails with the SyntacticError          *)
(* "unexpected value" and a nested form that TypesForm rejects with        *)
(* "expected a form of types".                                             *)
(***************************************************************************)
\* from_form has accepted the name of the source and reached its value
AtValue ==
    /\ AtName("TypeForm", "type")
    /\ IsUnqualified(source_form.tail[1], TypeSymbols)

C25_ValueKinds ==
    AtValue =>
        LET value == source_form.tail[2]
            kind == IF unwrap(res).tag = "Ok" THEN node.value.tag ELSE "none"
        IN IF value.kind = "Simple"
           THEN /\ value.head = "Empty" => kind = "Empty"
                /\ value.head = "Atomic" => kind = "Atomic"
                /\ value.head \in TypeKeywords \ {"Empty", "Atomic"} => kind = "Keyword"
                /\ value.head \in TypeSymbols => kind = "Symbol"
                /\ value.head \in QualifiedTypeSymbols => kind = "PathSymbol"
                /\ value.head \notin TypeKeywords \cup TypeSymbols \cup QualifiedTypeSymbols
                   => unwrap(res) = SyntacticErr("unexpected value")
           ELSE /\ TypesForm_accepts(value) => kind = "Form"
                /\ ~TypesForm_accepts(value)
                   => unwrap(res) = SyntacticErr("expected a form of types")

C25_Witness ==
    /\ AtValue
    /\ source_form.tail[2] = Simple("Atomic")
    /\ Accepted("TypeForm")
    /\ node.value.tag = "Atomic"

(***************************************************************************)
(* C30: for every TypeForm of a successful parse exactly one of            *)
(* is_empty_type, is_atomic_type, is_type_keyword, is_type_symbol and      *)
(* is_types_form holds, for each kind of value the parser produces.        *)
(***************************************************************************)
C30_OnePredicate ==
    Accepted("TypeForm") =>
        Cardinality({p \in 1..5 :
            <<TypeForm_is_empty_type(node), TypeForm_is_atomic_type(node),
              TypeForm_is_type_keyword(node), TypeForm_is_type_symbol(node),
              TypeForm_is_types_form(node)>>[p]}) = 1

(***************************************************************************)
(* C26: in the table of from_values each name set is the key set of its    *)
(* map and every list stored in a map is not empty, after every processed  *)
(* value and in every table returned.                                      *)
(***************************************************************************)
\* the name set that goes with each map
SetOfMap ==
    [imports |-> "imp_paths", exports |-> "exp_defs", types |-> "def_types",
     prims |-> "def_prims", sums |-> "def_sums", prods |-> "def_prods",
     sigs |-> "def_sigs", funs |-> "def_funs", apps |-> "def_apps",
     attrs |-> "def_attrs"]

\* the name sets of the table are the key sets of its maps
KeysAreNames(t) ==
    \A map \in MapNames :
        /\ t[SetOfMap[map]] = DOMAIN t[map]
        /\ \A k \in DOMAIN t[map] : Len(t[map][k]) >= 1

C26_NameSetsAreKeySets ==
    /\ KeysAreNames(st)
    /\ ret.tag = "Ok" => KeysAreNames(unwrap(ret.table))

C26_Witness ==
    /\ ret.tag = "Ok"
    /\ Len(values) = 2
    /\ "x" \in DOMAIN st.funs
    /\ Len(st.funs["x"]) = 2
    /\ st.def_funs = {"x"}

(***************************************************************************)
(* C27: in every table returned by from_values a main slot is filled iff   *)
(* the entry-point name is in the matching name set, and then the list of  *)
(* the map under that name has exactly one element, the STElement of the   *)
(* slot.                                                                   *)
(***************************************************************************)
\* the main slots of the table agree with its name sets and maps
SlotsAreEntries(t) ==
    \A c \in MainCategories :
        /\ is_some(t[SlotOf[c]]) <=> EntryPoint[c] \in t[NameSet[c]]
        /\ is_some(t[SlotOf[c]]) =>
              /\ EntryPoint[c] \in DOMAIN t[MapOf[c]]
              /\ t[MapOf[c]][EntryPoint[c]] = <<unwrap(t[SlotOf[c]])>>

C27_MainSlots == ret.tag = "Ok" => SlotsAreEntries(unwrap(ret.table))

C27_Witness ==
    /\ ret.tag = "Ok"
    /\ Len(values) = 2
    /\ is_some(st.main_app)
    /\ is_some(st.main_type)
    /\ SlotsAreEntries(unwrap(ret.table))

(***************************************************************************)
(* Values::from_str (src/src/values.rs 33-142)                             *)
(*                                                                         *)
(* A string is its sequence of lexemes, as in the Form layer.  `scan` is   *)
(* the state of one call: `src` the string, `tokens` the filtered tokens   *)
(* the loop has not met yet, `values`, `form` and `form_count` the locals  *)
(* of the function, `ret` where the call is ("Idle", "Loop", "Ok", "Err")  *)
(* and `desc` the description of its error.  `calls` records, in order,    *)
(* the tokens handed to each constructor of Value.  form_count is an i32   *)
(* that moves by one per token, so its width is never reached.             *)
(***************************************************************************)
FormStart == "("

FormEnd == ")"

Comment == "#c"

DocComment == "#!d"

\* token.kind of the token of a lexeme
TokenKind_of(token) ==
    CASE token = FormStart -> "FormStart"
      [] token = FormEnd -> "FormEnd"
      [] token = Comment -> "Comment"
      [] token = DocComment -> "DocComment"
      [] token = EmptyLiteral -> "EmptyLiteral"
      [] token \in Prims -> "UIntLiteral"
      [] token \in ValueSymbols \cup QualifiedValueSymbols -> "ValueSymbol"
      [] token \in TypeSymbols \cup QualifiedTypeSymbols -> "TypeSymbol"
      [] OTHER -> "Keyword"

\* the filter that takes only the comments out
filter_comments_only(tokens) ==
    SelectSeq(tokens, LAMBDA token : TokenKind_of(token) # "Comment")

\* the filter of values.rs 36-39
filter_comments(tokens) ==
    SelectSeq(tokens, LAMBDA token :
        TokenKind_of(token) # "Comment" /\ TokenKind_of(token) # "DocComment")

\* Value::new_empty, new_keyword, new_uint, new_symbol, new_type_symbol of
\* an atomic token (values.rs 59-122)
Value_of_token(token) ==
    CASE TokenKind_of(token) = "EmptyLiteral" -> new_atom(None, Some(token), "Empty")
      [] TokenKind_of(token) = "UIntLiteral" -> new_uint(token)
      [] TokenKind_of(token) = "ValueSymbol" -> new_symbol(token)
      [] TokenKind_of(token) = "TypeSymbol" -> new_type_symbol(token)
      [] OTHER -> new_keyword(token)

\* the application Value of a form with these children; a form without a
\* head has no name
app_of(children) ==
    IF Len(children) = 0
    THEN [name |-> None, value |-> None, typing |-> Type_App(<<>>),
          children |-> <<>>, file |-> None]
    ELSE new_app(children)

\* the children of the form from form[i] up to the ")" that closes it
RECURSIVE app_children(_, _)
app_children(form, i) ==
    IF i > Len(form) THEN [ok |-> FALSE, children |-> <<>>, next |-> i]
    ELSE IF form[i] = FormEnd THEN [ok |-> TRUE, children |-> <<>>, next |-> i + 1]
    ELSE IF form[i] = FormStart
    THEN LET inner == app_children(form, i + 1)
         IN IF ~inner.ok THEN inner
            ELSE LET rest == app_children(form, inner.next)
                 IN [rest EXCEPT !.children = <<app_of(inner.children)>> \o @]
    ELSE LET rest == app_children(form, i + 1)
         IN [rest EXCEPT !.children = <<Value_of_token(form[i])>> \o @]

\* Value::new_app: the application Value of a run of tokens that is one
\* form, a ParsingError for any other run
Value_new_app(form) ==
    IF Len(form) = 0 \/ form[1] # FormStart
    THEN [tag |-> "Err", desc |-> "invalid form"]
    ELSE LET r == app_children(form, 2)
         IN IF r.ok /\ r.next = Len(form) + 1
            THEN [tag |-> "Ok", value |-> app_of(r.children)]
            ELSE [tag |-> "Err", desc |-> "invalid form"]

\* the FormEnd arm (values.rs 127-137)
form_end(sc, token) ==
    LET form == Append(sc.form, token)
        value == Value_new_app(form)
    IN IF sc.form_count - 1 # 0
       THEN [sc EXCEPT !.form_count = @ - 1, !.form = form]
       ELSE IF value.tag = "Ok"
       THEN [sc EXCEPT !.form_count = @ - 1, !.form = <<>>,
                       !.values = Append(@, value.value),
                       !.calls = Append(@, form)]
       ELSE [sc EXCEPT !.form_count = @ - 1, !.form = form,
                       !.calls = Append(@, form),
                       !.ret = "Err", !.desc = value.desc]

\* the arm of an atomic token that makes a value of it at any depth
atomic_always_value(sc, token) ==
    [sc EXCEPT !.values = Append(@, Value_of_token(token)),
               !.calls = Append(@, <<token>>)]

\* the arm of an atomic token (values.rs 59-122)
atomic(sc, token) ==
    IF sc.form_count # 0
    THEN [sc EXCEPT !.form = Append(@, token)]
    ELSE [sc EXCEPT !.values = Append(@, Value_of_token(token)),
                    !.calls = Append(@, <<token>>)]

\* the body of the loop on one token (values.rs 46-138)
scan_token(sc, token) ==
    CASE TokenKind_of(token) = "Comment" ->
            [sc EXCEPT !.ret = "Err", !.desc = "unexpected comment token"]
      [] TokenKind_of(token) = "DocComment" ->
            [sc EXCEPT !.ret = "Err", !.desc = "unexpected doc comment token"]
      [] TokenKind_of(token) = "FormStart" ->
            [sc EXCEPT !.form_count = @ + 1, !.form = Append(@, token)]
      [] TokenKind_of(token) = "FormEnd" -> form_end(sc, token)
      [] OTHER -> atomic(sc, token)

\* the return that fails when a form is left open
return_checks_count(sc) ==
    IF sc.form_count # 0
    THEN [sc EXCEPT !.ret = "Err", !.desc = "unclosed form"]
    ELSE [sc EXCEPT !.ret = "Ok"]

\* Ok(values) after the loop (values.rs 141)
return_values(sc) == [sc EXCEPT !.ret = "Ok"]

\* the loop from the state sc to the return of the call
RECURSIVE scan_all(_)
scan_all(sc) ==
    IF sc.ret # "Loop" THEN sc
    ELSE IF Len(sc.tokens) = 0 THEN return_values(sc)
    ELSE scan_all(scan_token([sc EXCEPT !.tokens = Tail(@)], Head(sc.tokens)))

\* what a call has returned: Ok(values) or Err(ParsingError)
returned(sc) ==
    IF sc.ret = "Ok" THEN [tag |-> "Ok", values |-> sc.values, desc |-> ""]
    ELSE [tag |-> "Err", values |-> <<>>, desc |-> sc.desc]

\* Values::from_str of a string
Values_from_str(str) ==
    returned(scan_all(scan_of("Loop", str, filter_comments(Tokens_from_str(str)))))

\* the longest string scanned
MaxTokens == 5

\* the lexemes of the strings scanned: a symbol, a literal, the
\* parentheses and the two comments
ScanLexemes == {"a", "10", FormStart, FormEnd, Comment, DocComment}

ScanSources == UNION {[1..n -> ScanLexemes] : n \in 0..MaxTokens}

\* a call of Values::from_str: the tokens of the string, filtered
ValuesFromStr ==
    /\ scan.ret = "Idle"
    /\ \E str \in ScanSources :
          scan' = scan_of("Loop", str, filter_comments(Tokens_from_str(str)))
    /\ UNCHANGED <<table_vars, form_vars>>

\* one iteration of the loop, on a token of one of these kinds
NextToken(kinds) ==
    /\ scan.ret = "Loop"
    /\ Len(scan.tokens) > 0
    /\ TokenKind_of(Head(scan.tokens)) \in kinds
    /\ scan' = scan_token([scan EXCEPT !.tokens = Tail(@)], Head(scan.tokens))
    /\ UNCHANGED <<table_vars, form_vars>>

FormStartToken == NextToken({"FormStart"})

FormEndToken == NextToken({"FormEnd"})

\* a token of any other kind: the atomic arms and the two comment arms
OtherToken ==
    NextToken({"Comment", "DocComment", "EmptyLiteral", "Keyword",
               "UIntLiteral", "ValueSymbol", "TypeSymbol"})

\* the end of the loop
ReturnValues ==
    /\ scan.ret = "Loop"
    /\ Len(scan.tokens) = 0
    /\ scan' = return_values(scan)
    /\ UNCHANGED <<table_vars, form_vars>>

ValuesNext ==
    \/ ValuesFromStr
    \/ FormStartToken
    \/ FormEndToken
    \/ OtherToken
    \/ ReturnValues

ValuesSpec == Init /\ [][ValuesNext]_vars

(***************************************************************************)
(* C23: over a string without comments whose parentheses are balanced,     *)
(* Values::from_str makes, in the order of the string, one Value of each   *)
(* atomic token met while form_count is zero and one application Value of  *)
(* each maximal balanced form; form_count goes up by one on a form-start   *)
(* and down by one on a form-end, and a token met while form_count is not  *)
(* zero makes no top-level Value of its own.                               *)
(***************************************************************************)
\* the form-starts less the form-ends of a run of tokens
RECURSIVE depth(_)
depth(run) ==
    IF Len(run) = 0 THEN 0
    ELSE depth(Tail(run))
            + (IF Head(run) = FormStart THEN 1
               ELSE IF Head(run) = FormEnd THEN -1 ELSE 0)

\* no form-end without its form-start and no form-start left open
Balanced(run) ==
    /\ depth(run) = 0
    /\ \A i \in 1..Len(run) : depth(SubSeq(run, 1, i)) >= 0

\* one form: its first token is a form-start that its last token closes
IsForm(run) ==
    /\ Len(run) >= 2
    /\ run[1] = FormStart
    /\ run[Len(run)] = FormEnd
    /\ depth(run) = 0
    /\ \A i \in 1..(Len(run) - 1) : depth(SubSeq(run, 1, i)) > 0

IsAtomic(token) ==
    TokenKind_of(token) \notin {"FormStart", "FormEnd", "Comment", "DocComment"}

\* the runs of a sequence of runs, one after the other
RECURSIVE Flatten(_)
Flatten(runs) ==
    IF Len(runs) = 0 THEN <<>> ELSE Head(runs) \o Flatten(Tail(runs))

CommentFree(str) ==
    \A i \in 1..Len(str) : TokenKind_of(str[i]) \notin {"Comment", "DocComment"}

\* the values are those of the atoms and of the maximal forms met so far
OneValuePerUnit ==
    /\ scan.ret \in {"Loop", "Ok"}
    /\ Flatten(scan.calls) \o scan.form \o scan.tokens = Tokens_from_str(scan.src)
    /\ Len(scan.values) = Len(scan.calls)
    /\ \A i \in 1..Len(scan.calls) :
          \/ /\ Len(scan.calls[i]) = 1
             /\ IsAtomic(scan.calls[i][1])
             /\ scan.values[i] = Value_of_token(scan.calls[i][1])
          \/ /\ IsForm(scan.calls[i])
             /\ scan.values[i] = Value_new_app(scan.calls[i]).value
    /\ scan.form_count = depth(scan.form)
    /\ scan.ret = "Ok" => Len(scan.form) = 0

\* what one token does to form_count and to the values
CountsAndBuffers ==
    /\ FormStartToken => scan'.form_count = scan.form_count + 1
    /\ FormEndToken => scan'.form_count = scan.form_count - 1
    /\ OtherToken /\ scan.form_count # 0 => scan'.values = scan.values

C23_TopLevelValues ==
    /\ [](scan.ret # "Idle" /\ CommentFree(scan.src)
            /\ Balanced(Tokens_from_str(scan.src)) => OneValuePerUnit)
    /\ [][CountsAndBuffers]_vars

C23_Witness ==
    /\ scan.ret = "Ok"
    /\ scan.src = <<"a", FormStart, "a", "10", FormEnd>>
    /\ scan.values = <<new_symbol("a"), new_app(<<new_symbol("a"), new_uint("10")>>)>>

(***************************************************************************)
(* C24: the comments and doc comments are taken out before the scan:       *)
(* Values::from_str of a string returns what it returns for the string     *)
(* without its comments, a string of comments only gives empty Values, and *)
(* the scan of a comment token is a ParsingError that no call returns.     *)
(***************************************************************************)
\* the string without its comments
without_comments(str) == SelectSeq(str, LAMBDA lexeme : IsAtomic(lexeme)
                                        \/ lexeme \in {FormStart, FormEnd, " "})

CommentErrors == {"unexpected comment token", "unexpected doc comment token"}

C24_CommentsStripped ==
    /\ scan.ret # "Idle" => CommentFree(scan.tokens)
    /\ scan.desc \notin CommentErrors
    /\ scan.ret = "Loop" =>
          /\ scan_token(scan, Comment).ret = "Err"
          /\ scan_token(scan, Comment).desc = "unexpected comment token"
          /\ scan_token(scan, DocComment).ret = "Err"
          /\ scan_token(scan, DocComment).desc = "unexpected doc comment token"
    /\ scan.ret \in {"Ok", "Err"} =>
          /\ returned(scan) = Values_from_str(without_comments(scan.src))
          /\ Len(without_comments(scan.src)) = 0 =>
                returned(scan) = [tag |-> "Ok", values |-> <<>>, desc |-> ""]

C24_Witness ==
    /\ scan.ret = "Ok"
    /\ scan.src = <<Comment, "a", DocComment, "10">>
    /\ Len(scan.values) = 2

(***************************************************************************)
(* C28: in Values::from_str form_count is never negative, and every run of *)
(* tokens handed to Value::new_app starts with a form-start, ends with the *)
(* form-end that matches it and is balanced: a form-end met while          *)
(* form_count is zero does not lead to the reduction of an unbalanced run. *)
(***************************************************************************)
\* the runs handed to Value::new_app: the calls that are not of one atom
HandedToNewApp ==
    {i \in 1..Len(scan.calls) :
        Len(scan.calls[i]) # 1 \/ ~IsAtomic(scan.calls[i][1])}

C28_BalancedRuns ==
    /\ scan.form_count >= 0
    /\ \A i \in HandedToNewApp : IsForm(scan.calls[i])

(***************************************************************************)
(* C29: when the tokens end while form_count is not zero, from_str returns *)
(* Ok with the values built before the form left open; the tokens buffered *)
(* for that form give neither a Value nor an error.                        *)
(***************************************************************************)
\* the call is at or past the end of its tokens with a form left open
EndsInOpenForm ==
    scan.ret # "Idle" /\ Len(scan.tokens) = 0 /\ scan.form_count # 0

C29_OpenFormIsOk ==
    /\ [](EndsInOpenForm =>
            /\ scan.ret \in {"Loop", "Ok"}
            /\ scan.desc = ""
            /\ Len(scan.form) > 0
            /\ Len(scan.values) = Len(scan.calls)
            /\ Values_from_str(Flatten(scan.calls))
                  = [tag |-> "Ok", values |-> scan.values, desc |-> ""])
    /\ [][EndsInOpenForm /\ ReturnValues =>
            /\ scan'.ret = "Ok"
            /\ scan'.values = scan.values
            /\ scan'.calls = scan.calls
            /\ scan'.form = scan.form]_vars

C29_Witness ==
    /\ scan.ret = "Ok"
    /\ scan.src = <<"a", FormStart, "a", "10">>
    /\ scan.values = <<new_symbol("a")>>
    /\ scan.form = <<FormStart, "a", "10">>
    /\ scan.form_count = 1

====
